---- MODULE Spec2Model ----
(***************************************************************************)
(* A model of the CPZ Machine Z-machine interpreter: the run loop of       *)
(* code.py (ZMachine.execute_game) and the instruction decoder and opcode  *)
(* handlers of zmachine_opcodes.py (ZProcessor).                           *)
(*                                                                         *)
(* Python integers are unbounded, so values are kept as the code computes  *)
(* them: a value is reduced modulo 2^16 only where the code masks it.      *)
(* A Python exception inside execute_instruction is caught there and sets  *)
(* game_running to False; sys.exit() raises SystemExit, which no handler   *)
(* of the program catches, so the run ends with game_running unchanged.    *)
(***************************************************************************)
EXTENDS Integers, Sequences, FiniteSets, TLC

(***************************************************************************)
(* Program constants                                                       *)
(***************************************************************************)
LONG_FORM == 0
SHORT_FORM == 1
VARIABLE_FORM == 2

LARGE_CONSTANT == 0
SMALL_CONSTANT == 1
VARIABLE_OPERAND == 2
OMITTED_TYPE == 3

address_scaler == 2
max_properties == 32
object_size == 9
object_parent == 4
object_next == 5
object_child == 6
property_offset == 7

STACK_SIZE == 1024
maxcount == 3000
PaddedSize == 65536
NumLocals == 15

(***************************************************************************)
(* Arithmetic helpers: Python's bit operators on integers                  *)
(***************************************************************************)
Max(a, b) == IF a >= b THEN a ELSE b

RECURSIVE Pow2(_)
Pow2(n) == IF n = 0 THEN 1 ELSE 2 * Pow2(n - 1)

\* x >> n : floor division, also for negative x
Shr(x, n) == x \div Pow2(n)

\* x & (2^n - 1) : the low n bits of the two's complement of x
LowBits(x, n) == x % Pow2(n)

\* bit k of x (two's complement, also for negative x)
Bit(x, k) == (x \div Pow2(k)) % 2

\* a & b for a non-negative mask b below 2^17 (a of either sign)
RECURSIVE AndBits(_, _, _)
AndBits(a, b, k) ==
    IF k < 0 THEN 0
    ELSE Bit(a, k) * Bit(b, k) * Pow2(k) + AndBits(a, b, k - 1)

BitAnd(a, b) == AndBits(a, b, 16)

\* (a | b) & 0xFFFF
RECURSIVE OrBits(_, _, _)
OrBits(a, b, k) ==
    IF k < 0 THEN 0
    ELSE (IF Bit(a, k) + Bit(b, k) > 0 THEN Pow2(k) ELSE 0) + OrBits(a, b, k - 1)

BitOr16(a, b) == OrBits(a, b, 15)

\* the value of a 16-bit word read as a signed number
Signed16(v) == IF v < 32768 THEN v ELSE v - 65536

(***************************************************************************)
(* The story file: a sparse byte image, every byte not listed is 0         *)
(***************************************************************************)
Place(base, bytes) == [a \in base..(base + Len(bytes) - 1) |-> bytes[a - base + 1]]

WordBytes(w) == <<w \div 256, w % 256>>

\* layout of the modelled stories
InitialPC    == 4 * 256
GlobalsAddr  == 4 * 16
ObjectTable  == 1 * 256
StaticBase   == 2 * 256
DictAddr     == 2 * 256
AbbrevAddr   == 5 * 128
R1Addr       == 5 * 256
R2Addr       == 5 * 256 + 32
HighAddr     == 15 * 4096
StoryLen     == 15 * 4096 + 16

R1Hi == (R1Addr \div address_scaler) \div 256
R1Lo == (R1Addr \div address_scaler) % 256
R2Hi == (R2Addr \div address_scaler) \div 256
R2Lo == (R2Addr \div address_scaler) % 256

Header ==
    (0 :> 3)
    @@ Place(6, WordBytes(InitialPC))
    @@ Place(8, WordBytes(DictAddr))
    @@ Place(10, WordBytes(ObjectTable))
    @@ Place(12, WordBytes(GlobalsAddr))
    @@ Place(14, WordBytes(StaticBase))
    @@ Place(24, WordBytes(AbbrevAddr))

\* globals G0 = 5, G1 = 3
GlobalsImage == Place(GlobalsAddr, <<0, 5, 0, 3>>)

\* object n of the story, as get_object_address places it
ObjAddr(n) == ObjectTable + (max_properties - 1) * 2 + (n - 1) * object_size

\* attributes (4 bytes), parent, sibling, child, property pointer
\* object 1 is the root with children 2 -> 3; object 4 has no parent
ObjectsImage ==
    Place(ObjAddr(1), <<0, 32, 0, 0,  0, 0, 2,  0, 0>>)
    @@ Place(ObjAddr(2), <<0, 0, 0, 0,  1, 3, 0,  0, 0>>)
    @@ Place(ObjAddr(3), <<128, 0, 0, 0,  1, 0, 0,  0, 0>>)
    @@ Place(ObjAddr(4), <<0, 0, 0, 1,  0, 0, 0,  0, 0>>)

(***************************************************************************)
(* The machine state threaded through one execute_instruction call         *)
(*   status: "ok", "exception" (a Python exception is propagating) or      *)
(*           "exit" (SystemExit is propagating) or "hang" (the handler is  *)
(*           in a loop that it never leaves)                               *)
(*   ret:    the value returned by the last helper                         *)
(***************************************************************************)
MemLen == Max(StoryLen, PaddedSize)

variables_addr == GlobalsAddr
object_table_addr == ObjectTable

Raise(s) == [s EXCEPT !.status = "exception"]
Hang(s) == [s EXCEPT !.status = "hang"]
SysExit(s) == [s EXCEPT !.status = "exit"]
Bind(s, F(_)) == IF s.status = "ok" THEN F(s) ELSE s

\* a local name: v is evaluated once and F reads it as x
Let(v, F(_)) == F(v)
Return(s, v) == [s EXCEPT !.ret = v]

\* Python indexing of the bytearray: a negative index counts from the end
PyIndex(addr) == IF addr < 0 THEN addr + MemLen ELSE addr
IndexError(addr) == addr < 0 - MemLen
Cell(m, a) == IF a \in DOMAIN m THEN m[a] ELSE 0

ByteAt(m, addr) == IF addr < MemLen THEN Cell(m, PyIndex(addr)) ELSE 0
WordAt(m, addr) ==
    IF addr + 1 < MemLen
    THEN Cell(m, PyIndex(addr)) * 256 + Cell(m, PyIndex(addr + 1))
    ELSE 0

read_byte(s, addr) ==
    IF addr < MemLen /\ IndexError(addr) THEN Raise(s)
    ELSE Return(s, ByteAt(s.memory, addr))

read_word(s, addr) ==
    IF addr + 1 < MemLen /\ IndexError(addr) THEN Raise(s)
    ELSE Return(s, WordAt(s.memory, addr))

Poke(m, a, v) == [x \in (DOMAIN m) \cup {a} |-> IF x = a THEN v ELSE m[x]]

write_byte(s, addr, value) ==
    IF addr < MemLen
    THEN IF IndexError(addr) THEN Raise(s)
         ELSE [s EXCEPT !.memory = Poke(@, PyIndex(addr), LowBits(value, 8))]
    ELSE s

write_word(s, addr, value) ==
    IF addr + 1 < MemLen
    THEN IF IndexError(addr) THEN Raise(s)
         ELSE [s EXCEPT !.memory =
                  Poke(Poke(@, PyIndex(addr), LowBits(Shr(value, 8), 8)),
                       PyIndex(addr + 1), LowBits(value, 8))]
    ELSE s

\* Screen.print_text: an empty text prints nothing
print_text(s, text) ==
    IF text = "" THEN s ELSE [s EXCEPT !.output = Append(@, text)]

print_error(s, msg) == print_text(s, msg)

(***************************************************************************)
(* Frames and variables                                                    *)
(***************************************************************************)
Frame ==
    [return_pointer |-> 0, arg_count |-> 0, count |-> 0,
     local_vars |-> [i \in 1..NumLocals |-> 0], data_stack |-> <<>>]

Depth(s) == Len(s.call_stack)
Top(s) == s.call_stack[Len(s.call_stack)]

\* Python list indexing of local_vars[var_num - 1]
LocalIndex(var_num) ==
    IF var_num - 1 < 0 THEN NumLocals + var_num ELSE var_num
LocalIndexError(var_num) == var_num - 1 < 0 - NumLocals

\* one evaluation stack for all frames: with the own stack empty, variable
\* 0 pops the stack of the frame below
read_variable_shared(s, var_num) ==
    IF var_num > 15
    THEN read_word(s, variables_addr + (var_num - 16) * 2)
    ELSE IF Depth(s) = 0 THEN Raise(s)
    ELSE IF var_num = 0
    THEN IF Len(Top(s).data_stack) > 0
         THEN LET st == Top(s).data_stack IN
              [s EXCEPT !.call_stack[Depth(s)].data_stack = SubSeq(st, 1, Len(st) - 1),
                        !.ret = st[Len(st)]]
         ELSE IF Depth(s) > 1 /\ Len(s.call_stack[Depth(s) - 1].data_stack) > 0
         THEN LET st == s.call_stack[Depth(s) - 1].data_stack IN
              [s EXCEPT !.call_stack[Depth(s) - 1].data_stack = SubSeq(st, 1, Len(st) - 1),
                        !.ret = st[Len(st)]]
         ELSE [print_error(s, "*** ERROR: data stack is empty in read_variable()")
                  EXCEPT !.game_running = FALSE, !.ret = 0]
    ELSE IF LocalIndexError(var_num) THEN Raise(s)
    ELSE Return(s, Top(s).local_vars[LocalIndex(var_num)])

read_variable(s, var_num) ==
    IF var_num > 15
    THEN read_word(s, variables_addr + (var_num - 16) * 2)
    ELSE IF Depth(s) = 0 THEN Raise(s)
    ELSE IF var_num = 0
    THEN IF Len(Top(s).data_stack) > 0
         THEN LET st == Top(s).data_stack IN
              [s EXCEPT !.call_stack[Depth(s)].data_stack = SubSeq(st, 1, Len(st) - 1),
                        !.ret = st[Len(st)]]
         ELSE [print_error(s, "*** ERROR: data stack is empty in read_variable()")
                  EXCEPT !.game_running = FALSE, !.ret = 0]
    ELSE IF LocalIndexError(var_num) THEN Raise(s)
    ELSE Return(s, Top(s).local_vars[LocalIndex(var_num)])

write_variable(s, var_num, value) ==
    LET v == LowBits(value, 16) IN
    IF var_num > 15
    THEN write_word(s, variables_addr + (var_num - 16) * 2, v)
    ELSE IF Depth(s) = 0 THEN Raise(s)
    ELSE IF var_num = 0
    THEN [s EXCEPT !.call_stack[Depth(s)].data_stack = Append(@, v)]
    ELSE IF LocalIndexError(var_num) THEN Raise(s)
    ELSE [s EXCEPT !.call_stack[Depth(s)].local_vars[LocalIndex(var_num)] = v]

store_result(s, value) ==
    Bind(read_byte(s, s.pc),
         LAMBDA t : write_variable([t EXCEPT !.pc = @ + 1], t.ret, value))

\* a return that stores the result where the routine stopped
return_from_routine_keeps_pc(s, value) ==
    IF Depth(s) > 0
    THEN LET popped == [s EXCEPT !.call_stack = SubSeq(@, 1, Len(@) - 1)]
         IN  IF Depth(popped) = 0
             THEN [print_error(popped, "*** ERROR: call stack is empty")
                      EXCEPT !.game_running = FALSE]
             ELSE store_result(popped, value)
    ELSE store_result([s EXCEPT !.game_running = FALSE], value)

return_from_routine(s, value) ==
    IF Depth(s) > 0
    THEN LET f == Top(s)
             popped == [s EXCEPT !.call_stack = SubSeq(@, 1, Len(@) - 1)]
         IN  IF Depth(popped) = 0
             THEN [print_error(popped, "*** ERROR: call stack is empty")
                      EXCEPT !.game_running = FALSE]
             ELSE store_result([popped EXCEPT !.pc = f.return_pointer], value)
    ELSE store_result([s EXCEPT !.game_running = FALSE], value)

op_rtrue(s, operands) == return_from_routine(s, 1)
op_rfalse(s, operands) == return_from_routine(s, 0)

\* a two-byte offset read as an unsigned 14-bit number
BranchOffset14_unsigned(b0, b1) == (b0 % 64) * 256 + b1

BranchOffset14(b0, b1) ==
    LET raw == (b0 % 64) * 256 + b1
        ext == IF (raw \div 8192) % 2 = 1 THEN raw + 49152 ELSE raw
    IN  IF ext > 0 /\ ext >= 32768 THEN ext - 65536 ELSE ext

BranchTaken(s, branch_on_true, branch_offset) ==
    IF branch_on_true
    THEN IF branch_offset = 0 THEN op_rfalse(s, <<>>)
         ELSE IF branch_offset = 1 THEN op_rtrue(s, <<>>)
         ELSE [s EXCEPT !.pc = @ + branch_offset - 2]
    ELSE s

branch(s, condition) ==
    Bind(read_byte(s, s.pc), LAMBDA t :
        LET branch_byte == t.ret
            t1 == [t EXCEPT !.pc = @ + 1]
            branch_on_true ==
                IF branch_byte \div 128 = 0 THEN ~condition ELSE condition
        IN  IF (branch_byte \div 64) % 2 = 0
            THEN Bind(read_byte(t1, t1.pc), LAMBDA u :
                     BranchTaken([u EXCEPT !.pc = @ + 1], branch_on_true,
                                 BranchOffset14(branch_byte, u.ret)))
            ELSE BranchTaken(t1, branch_on_true, branch_byte % 64))

(***************************************************************************)
(* Instruction decoding                                                    *)
(***************************************************************************)
\* the operand types of a variable-form instruction, up to and including
\* the first omitted one
RECURSIVE TypesFrom(_, _)
TypesFrom(types_byte, i) ==
    IF i > 3 THEN <<>>
    ELSE LET op_type == Shr(types_byte, 6 - 2 * i) % 4 IN
         IF op_type = OMITTED_TYPE THEN <<op_type>>
         ELSE <<op_type>> \o TypesFrom(types_byte, i + 1)

decode_operand_types(s) ==
    Bind(read_byte(s, s.pc),
         LAMBDA t : [t EXCEPT !.pc = @ + 1, !.ret = TypesFrom(t.ret, 0)])

\* the operand loop of fetch_instruction; acc holds the operands read so far
RECURSIVE FetchOperands(_, _, _)
FetchOperands(s, types, acc) ==
    IF s.status # "ok" THEN [s |-> s, operands |-> acc]
    ELSE IF types = <<>> \/ Head(types) = OMITTED_TYPE
    THEN [s |-> s, operands |-> acc]
    ELSE Let(IF Head(types) = LARGE_CONSTANT
             THEN Bind(read_word(s, s.pc), LAMBDA t : [t EXCEPT !.pc = @ + 2])
             ELSE IF Head(types) = SMALL_CONSTANT
             THEN Bind(read_byte(s, s.pc), LAMBDA t : [t EXCEPT !.pc = @ + 1])
             ELSE Bind(read_byte(s, s.pc),
                       LAMBDA t : read_variable([t EXCEPT !.pc = @ + 1], t.ret)),
             LAMBDA r :
                 IF r.status # "ok" THEN [s |-> r, operands |-> acc]
                 ELSE FetchOperands(r, Tail(types), Append(acc, r.ret)))

\* form, opcode number and operand types of an opcode byte; the state is the
\* one after the operand-type byte of a variable-form instruction was read
DecodeForm(s, opcode_byte) ==
    IF opcode_byte >= 192
    THEN Let(Bind(s, decode_operand_types), LAMBDA t :
             [s |-> t, form |-> VARIABLE_FORM, opcode |-> opcode_byte % 32,
              types |-> IF t.status = "ok" THEN t.ret ELSE <<>>])
    ELSE IF opcode_byte >= 176
    THEN [s |-> s, form |-> SHORT_FORM, opcode |-> opcode_byte % 64, types |-> <<>>]
    ELSE IF opcode_byte >= 128
    THEN [s |-> s, form |-> SHORT_FORM, opcode |-> opcode_byte % 16,
          types |-> <<(opcode_byte \div 16) % 4>>]
    ELSE [s |-> s, form |-> LONG_FORM, opcode |-> opcode_byte % 32,
          types |-> << IF (opcode_byte \div 64) % 2 = 0
                       THEN SMALL_CONSTANT ELSE VARIABLE_OPERAND,
                       IF (opcode_byte \div 32) % 2 = 0
                       THEN SMALL_CONSTANT ELSE VARIABLE_OPERAND >>]

fetch_instruction(s) ==
    IF s.pc >= MemLen \/ IndexError(s.pc)
    THEN [s |-> Raise(s), opcode |-> 0, operands |-> <<>>, form |-> LONG_FORM,
          opcode_byte |-> 0 - 1, start |-> s.pc]
    ELSE LET opcode_byte == ByteAt(s.memory, s.pc) IN
         Let(DecodeForm([s EXCEPT !.pc = @ + 1], opcode_byte), LAMBDA f :
         Let(FetchOperands(f.s, f.types, <<>>), LAMBDA o :
             [s |-> o.s, opcode |-> f.opcode, operands |-> o.operands,
              form |-> f.form, opcode_byte |-> opcode_byte, start |-> s.pc]))

\* the key of the dispatch table computed by execute_instruction from the
\* form, the opcode number, the number of operands and the opcode byte
full_opcode(form, opcode_number, operand_count, byte) ==
    IF form = LONG_FORM THEN opcode_number
    ELSE IF form = SHORT_FORM
    THEN IF operand_count = 0 THEN opcode_number ELSE 128 + opcode_number
    ELSE IF (byte \div 32) % 2 = 0 THEN opcode_number
    ELSE 32 + opcode_number

\* the key of a fetched instruction
KeyOf(d) == full_opcode(d.form, d.opcode, Len(d.operands), d.opcode_byte)

\* the same key, from the opcode byte alone: only a short-form byte from
\* 0xB0 on has no operand
KeyOfByte(byte) ==
    Let(DecodeForm([status |-> "none"], byte), LAMBDA f :
        full_opcode(f.form, f.opcode, IF byte >= 176 THEN 0 ELSE 1, byte))

\* the keys of ZProcessor.opcodes
opcodes ==
    {48, 49, 50, 51, 56, 57, 58, 59}
    \cup (128..135) \cup (138..143)
    \cup (1..25)
    \cup (32..41)

(***************************************************************************)
(* Opcode handlers: each takes the state after the operands were fetched   *)
(***************************************************************************)
\* operands[i] of Python (0-based); a missing operand is an IndexError
HasArgs(operands, n) == Len(operands) >= n
Arg(operands, i) == operands[i + 1]
WithArgs(s, operands, n, F(_)) == IF HasArgs(operands, n) THEN F(s) ELSE Raise(s)

\* "x if x < 32768 else x - 65536"
AsSigned(x) == IF x < 32768 THEN x ELSE x - 65536

DigitChar(d) == SubSeq("0123456789", d + 1, d + 1)

RECURSIVE NatToString(_)
NatToString(n) ==
    IF n < 10 THEN DigitChar(n) ELSE NatToString(n \div 10) \o DigitChar(n % 10)

\* str(num)
PyStr(num) == IF num < 0 THEN "-" \o NatToString(0 - num) ELSE NatToString(num)

(***************************************************************************)
(* Text: encode_string and decode_string (h_type is 3)                     *)
(***************************************************************************)
v3_lookup_table == <<
    "abcdefghijklmnopqrstuvwxyz",
    "ABCDEFGHIJKLMNOPQRSTUVWXYZ",
    " \n0123456789.,!?_#'\"/\\-:()" >>

CharAt(str, i) == SubSeq(str, i, i)

\* the table and the code the lookup loops of encode_string end with: the
\* place of ch in the tables, or table 2 and code 0 when it is in none
Lookup(ch) ==
    LET hits == { <<i, j>> \in (0..2) \X (0..25) :
                     CharAt(v3_lookup_table[i + 1], j + 1) = ch }
    IN  IF hits = {} THEN <<2, 0>> ELSE CHOOSE h \in hits : TRUE

\* the loop over the characters of s: codes are the codes stored so far,
\* at most 9; a character with table 2 and code 0 is shifted as a number,
\* which raises for a character of a str
RECURSIVE EncodeCodes(_, _, _, _)
EncodeCodes(len, s, pos, codes) ==
    IF len <= 0 THEN [ok |-> TRUE, codes |-> codes]
    ELSE LET tc == Lookup(CharAt(s, pos + 1))
             table == tc[1]
             code == tc[2]
             c1 == IF table # 0 /\ Len(codes) < 9 THEN Append(codes, table + 3) ELSE codes
             c2 == IF Len(c1) < 9 THEN Append(c1, code + 6) ELSE c1
         IN  IF table = 2 /\ code = 0 /\ Len(c2) < 9
             THEN [ok |-> FALSE, codes |-> c2]
             ELSE EncodeCodes(len - 1, s, pos + 1, c2)

\* an encoder that stores no shift code before a character of table 1 or 2
RECURSIVE EncodeCodesUnshifted(_, _, _, _)
EncodeCodesUnshifted(len, s, pos, codes) ==
    IF len <= 0 THEN [ok |-> TRUE, codes |-> codes]
    ELSE LET tc == Lookup(CharAt(s, pos + 1))
             c2 == IF Len(codes) < 9 THEN Append(codes, tc[2] + 6) ELSE codes
         IN  IF tc[1] = 2 /\ tc[2] = 0 /\ Len(c2) < 9
             THEN [ok |-> FALSE, codes |-> c2]
             ELSE EncodeCodesUnshifted(len - 1, s, pos + 1, c2)

encode_string_unshifted(len, s) ==
    Let(EncodeCodesUnshifted(len, s, 0, <<>>), LAMBDA e :
        LET codes(i) == IF i <= Len(e.codes) THEN e.codes[i] ELSE 5
            word(i) == codes(i) * 1024 + codes(i + 1) * 32 + codes(i + 2)
        IN  [ok |-> e.ok,
             buffer |-> <<word(1),
                          IF word(4) >= 32768 THEN word(4) ELSE word(4) + 32768,
                          word(7)>>])

\* the three words of the buffer, the end bit set in the second one
encode_string(len, s) ==
    Let(EncodeCodes(len, s, 0, <<>>), LAMBDA e :
        LET codes(i) == IF i <= Len(e.codes) THEN e.codes[i] ELSE 5
            word(i) == codes(i) * 1024 + codes(i + 1) * 32 + codes(i + 2)
        IN  [ok |-> e.ok,
             buffer |-> <<word(1),
                          IF word(4) >= 32768 THEN word(4) ELSE word(4) + 32768,
                          word(7)>>])

\* the printable ASCII characters, from code 32
Ascii == " !\"#$%&'()*+,-./0123456789:;<=>?@ABCDEFGHIJKLMNOPQRSTUVWXYZ[\\]^_\fabcdefghijklmnopqrstuvwxyz{|}~"

\* ord(ch) and chr(n); a code outside 32..126 gives a character that is in
\* no alphabet table, and so does code 96, written \f here
Ord(ch) == 31 + CHOOSE i \in 1..Len(Ascii) : CharAt(Ascii, i) = ch
Chr(n) == IF n \in 32..126 THEN CharAt(Ascii, n - 31) ELSE "\t"

synonyms_offset == AbbrevAddr

\* how many decode_string calls the runtime nests before it raises
\* "maximum recursion depth exceeded"
MaxNesting == 3

\* decode_string(addr) on memory m: the text, and ok = FALSE when an
\* exception was raised. d is the loop state; d.depth counts the calls that
\* are open, and d.mode is "program" for the decoder of the program.
RECURSIVE DecodeWords(_, _)

\* the loop state at the start of a call
DecodeStart(addr, depth, mode) ==
    [addr |-> addr, text |-> "", ok |-> TRUE, shift_state |-> 0,
     shift_lock |-> 0, zscii_flag |-> 0, zscii |-> 0,
     synonym_flag |-> 0, synonym |-> 0, depth |-> depth, mode |-> mode]

DecodeChar(m, d, char_code) ==
    IF ~d.ok THEN d
    ELSE IF d.synonym_flag = 1
    THEN LET synonym == (d.synonym - 1) * 64
             entry == synonyms_offset + synonym + char_code * 2
         IN  IF IndexError(entry) \/ IndexError(entry + 1) THEN [d EXCEPT !.ok = FALSE]
             ELSE IF d.mode = "flat" /\ d.depth >= 1
             THEN [d EXCEPT !.synonym_flag = 0, !.synonym = synonym,
                            !.shift_state = d.shift_lock]
             ELSE IF d.depth >= MaxNesting THEN [d EXCEPT !.ok = FALSE]
             ELSE LET syn == DecodeWords(m, DecodeStart(WordAt(m, entry) * 2,
                                                        d.depth + 1, d.mode))
                  IN  [d EXCEPT !.synonym_flag = 0, !.synonym = synonym,
                                !.text = @ \o syn.text, !.ok = syn.ok,
                                !.shift_state = d.shift_lock]
    ELSE IF d.zscii_flag = 1
    THEN [d EXCEPT !.zscii_flag = 2, !.zscii = char_code * 32]
    ELSE IF d.zscii_flag = 2
    THEN IF d.mode = "zscii"
         THEN [d EXCEPT !.zscii_flag = 0, !.text = @ \o Chr((d.zscii + char_code) % 256)]
         ELSE [d EXCEPT !.zscii_flag = 0, !.ok = FALSE]      \* NameError: charcode
    ELSE IF char_code > 5
    THEN LET c == char_code - 6 IN
         [(IF d.shift_state = 2 /\ c = 0 THEN [d EXCEPT !.zscii_flag = 1]
           ELSE IF d.shift_state = 2 /\ c = 1 THEN [d EXCEPT !.text = @ \o "\r\n"]
           ELSE [d EXCEPT !.text = @ \o CharAt(v3_lookup_table[d.shift_state + 1], c + 1)])
          EXCEPT !.shift_state = d.shift_lock]
    ELSE IF char_code = 0 THEN [d EXCEPT !.text = @ \o " "]
    ELSE IF char_code < 4 THEN [d EXCEPT !.synonym_flag = 1, !.synonym = char_code]
    ELSE [d EXCEPT !.shift_state = char_code - 3, !.shift_lock = 0]

DecodeWords(m, d) ==
    IF ~d.ok \/ ~(d.addr < MemLen) THEN d
    ELSE IF IndexError(d.addr) \/ IndexError(d.addr + 1) THEN [d EXCEPT !.ok = FALSE]
    ELSE LET word == WordAt(m, d.addr)
             d0 == [d EXCEPT !.addr = @ + 2,
                             !.zscii_flag = IF d.mode = "zscii" THEN @ ELSE 0]
             d1 == DecodeChar(m, d0, (word \div 1024) % 32)
             d2 == DecodeChar(m, d1, (word \div 32) % 32)
             d3 == DecodeChar(m, d2, word % 32)
         IN  IF ~d3.ok \/ word >= 32768 THEN d3 ELSE DecodeWords(m, d3)

\* a decoder that expands no abbreviation inside the string of an
\* abbreviation: there the two codes of the reference give no text
decode_string_flat(m, addr) == DecodeWords(m, DecodeStart(addr, 0, "flat"))

\* a decoder that keeps a ZSCII escape open from one word to the next and
\* gives the character of its two codes
decode_string_zscii(m, addr) == DecodeWords(m, DecodeStart(addr, 0, "zscii"))

decode_string(m, addr) == DecodeWords(m, DecodeStart(addr, 0, "program"))

\* the address after the first word at or after addr that has the end bit
RECURSIVE skip_string(_, _)
skip_string(m, addr) ==
    IF ~(addr < MemLen) THEN addr
    ELSE IF WordAt(m, addr) >= 32768 THEN addr + 2
    ELSE skip_string(m, addr + 2)

op_print(s, operands) ==
    LET text == decode_string(s.memory, s.pc) IN
    IF ~text.ok THEN Raise(s)
    ELSE LET printed == print_text(s, text.text) IN
         IF IndexError(s.pc) \/ IndexError(s.pc + 1) THEN Raise(printed)
         ELSE [printed EXCEPT !.pc = skip_string(s.memory, s.pc)]

op_ret_popped(s, operands) ==
    IF Depth(s) = 0 THEN Raise(s)
    ELSE IF Len(Top(s).data_stack) > 0
    THEN LET st == Top(s).data_stack IN
         return_from_routine(
             [s EXCEPT !.call_stack[Depth(s)].data_stack = SubSeq(st, 1, Len(st) - 1)],
             st[Len(st)])
    ELSE return_from_routine(s, 0)

op_quit(s, operands) == [s EXCEPT !.game_running = FALSE]

op_new_line(s, operands) == print_text(s, "\n")

\* prints on the console only, then sys.exit()
op_catch(s, operands) == SysExit(s)

op_jz(s, operands) ==
    IF Len(operands) > 0 THEN branch(s, Arg(operands, 0) = 0) ELSE s

RECURSIVE AnyEqual(_, _)
AnyEqual(operands, i) ==
    IF i > Len(operands) THEN FALSE
    ELSE operands[1] = operands[i] \/ AnyEqual(operands, i + 1)

op_je(s, operands) ==
    IF HasArgs(operands, 2) THEN branch(s, AnyEqual(operands, 2)) ELSE s

op_jl(s, operands) ==
    IF HasArgs(operands, 2)
    THEN branch(s, AsSigned(Arg(operands, 0)) < AsSigned(Arg(operands, 1)))
    ELSE s

op_jg(s, operands) ==
    IF HasArgs(operands, 2)
    THEN branch(s, AsSigned(Arg(operands, 0)) > AsSigned(Arg(operands, 1)))
    ELSE s

\* (~bitmap & flags) == 0: every flag is set in the bitmap
op_test(s, operands) ==
    WithArgs(s, operands, 2, LAMBDA a :
        branch(a, BitAnd(0 - Arg(operands, 0) - 1, Arg(operands, 1)) = 0))

op_load(s, operands) ==
    IF Len(operands) > 0
    THEN Bind(read_variable(s, Arg(operands, 0)), LAMBDA t : store_result(t, t.ret))
    ELSE s

op_store(s, operands) ==
    IF HasArgs(operands, 2)
    THEN write_variable(s, Arg(operands, 0), Arg(operands, 1))
    ELSE s

op_add(s, operands) ==
    IF HasArgs(operands, 2)
    THEN store_result(s, (Arg(operands, 0) + Arg(operands, 1)) % 65536)
    ELSE s

op_sub(s, operands) ==
    IF HasArgs(operands, 2)
    THEN store_result(s, (Arg(operands, 0) - Arg(operands, 1)) % 65536)
    ELSE s

\* Python's a // b and a % b for b # 0: the quotient is rounded down and the
\* remainder takes the sign of b
PyFloorDiv(a, b) == IF b > 0 THEN a \div b ELSE (0 - a) \div (0 - b)
PyMod(a, b) == a - b * PyFloorDiv(a, b)

\* int(a / b) for b # 0: the quotient with its fraction dropped
PyTruncDiv(a, b) ==
    LET q == (IF a < 0 THEN 0 - a ELSE a) \div (IF b < 0 THEN 0 - b ELSE b)
    IN  IF (a < 0) = (b < 0) THEN q ELSE 0 - q

op_mul(s, operands) ==
    IF HasArgs(operands, 2)
    THEN store_result(s, (AsSigned(Arg(operands, 0)) * AsSigned(Arg(operands, 1))) % 65536)
    ELSE s

\* a division that stores 0 for a zero divisor
op_div_zero_gives_0(s, operands) ==
    IF HasArgs(operands, 2)
    THEN LET a == AsSigned(Arg(operands, 0))
             b == AsSigned(Arg(operands, 1))
         IN  IF b = 0
             THEN store_result(print_error(s,
                      "*** ERROR: divide by zero error: Result set to 32767 (0x7fff)."), 0)
             ELSE store_result(s, PyTruncDiv(a, b) % 65536)
    ELSE s

\* a division that rounds the quotient down
op_div_rounding_down(s, operands) ==
    IF HasArgs(operands, 2)
    THEN LET a == AsSigned(Arg(operands, 0))
             b == AsSigned(Arg(operands, 1))
         IN  IF b = 0
             THEN store_result(print_error(s,
                      "*** ERROR: divide by zero error: Result set to 32767 (0x7fff)."), 32767)
             ELSE store_result(s, PyFloorDiv(a, b) % 65536)
    ELSE s

op_div(s, operands) ==
    IF HasArgs(operands, 2)
    THEN LET a == AsSigned(Arg(operands, 0))
             b == AsSigned(Arg(operands, 1))
         IN  IF b = 0
             THEN store_result(print_error(s,
                      "*** ERROR: divide by zero error: Result set to 32767 (0x7fff)."), 32767)
             ELSE store_result(s, PyTruncDiv(a, b) % 65536)
    ELSE s

op_mod(s, operands) ==
    IF HasArgs(operands, 2)
    THEN IF Arg(operands, 1) = 0
         THEN store_result(print_error(s,
                  "*** ERROR: mod by zero error: Result set to 0."), 0)
         ELSE store_result(s, PyMod(Arg(operands, 0), Arg(operands, 1)) % 65536)
    ELSE s

op_print_num(s, operands) ==
    IF Len(operands) > 0
    THEN print_text(s, PyStr(AsSigned(Arg(operands, 0))))
    ELSE s

op_inc(s, operands) ==
    WithArgs(s, operands, 1, LAMBDA a :
        Bind(read_variable(a, Arg(operands, 0)),
             LAMBDA t : write_variable(t, Arg(operands, 0), t.ret + 1)))

op_dec(s, operands) ==
    WithArgs(s, operands, 1, LAMBDA a :
        Bind(read_variable(a, Arg(operands, 0)),
             LAMBDA t : write_variable(t, Arg(operands, 0), t.ret - 1)))

\* the comparison is on the result before write_variable masks it, and on
\* the operand as it was fetched
op_dec_chk(s, operands) ==
    IF HasArgs(operands, 2)
    THEN Bind(read_variable(s, Arg(operands, 0)), LAMBDA t :
             Bind(write_variable(t, Arg(operands, 0), t.ret - 1), LAMBDA u :
                 branch(u, t.ret - 1 < Arg(operands, 1))))
    ELSE s

op_inc_chk(s, operands) ==
    IF HasArgs(operands, 2)
    THEN Bind(read_variable(s, Arg(operands, 0)), LAMBDA t :
             Bind(write_variable(t, Arg(operands, 0), t.ret + 1), LAMBDA u :
                 branch(u, t.ret + 1 > Arg(operands, 1))))
    ELSE s

op_ret(s, operands) ==
    WithArgs(s, operands, 1, LAMBDA a : return_from_routine(a, Arg(operands, 0)))

\* a jump that adds the offset to the address after the operand as it is
op_jump_without_minus_2(s, operands) ==
    WithArgs(s, operands, 1, LAMBDA a :
        LET ptr == IF Arg(operands, 0) > 0 /\ Arg(operands, 0) % 65536 >= 32768
                   THEN Arg(operands, 0) - 65536 ELSE Arg(operands, 0)
        IN  [a EXCEPT !.pc = @ + ptr])

op_jump(s, operands) ==
    WithArgs(s, operands, 1, LAMBDA a :
        LET ptr == IF Arg(operands, 0) > 0 /\ Arg(operands, 0) % 65536 >= 32768
                   THEN Arg(operands, 0) - 65536 ELSE Arg(operands, 0)
        IN  [a EXCEPT !.pc = @ + ptr - 2])

op_not(s, operands) ==
    WithArgs(s, operands, 1, LAMBDA a : store_result(a, 0 - Arg(operands, 0) - 1))

op_loadw(s, operands) ==
    WithArgs(s, operands, 2, LAMBDA a :
        Bind(read_word(a, Arg(operands, 0) + Arg(operands, 1) * 2),
             LAMBDA t : store_result(t, t.ret)))

op_loadb(s, operands) ==
    WithArgs(s, operands, 2, LAMBDA a :
        Bind(read_byte(a, Arg(operands, 0) + Arg(operands, 1)),
             LAMBDA t : store_result(t, t.ret)))

op_storew(s, operands) ==
    WithArgs(s, operands, 3, LAMBDA a :
        IF Arg(operands, 0) > StoryLen
        THEN SysExit(print_error(a, "*** ERROR: Attempted to write outside of data area"))
        ELSE write_word(a, Arg(operands, 0) + Arg(operands, 1) * 2, Arg(operands, 2)))

op_storeb(s, operands) ==
    WithArgs(s, operands, 3, LAMBDA a :
        write_byte(a, Arg(operands, 0) + Arg(operands, 1), Arg(operands, 2)))

\* pick is what random.randint(1, range) returns; range = 0 leaves result
\* unassigned, and reading it raises
op_random(s, operands, pick) ==
    WithArgs(s, operands, 1, LAMBDA a :
        IF Arg(operands, 0) < 0 THEN store_result(a, 0)
        ELSE IF Arg(operands, 0) > 0 THEN store_result(a, pick)
        ELSE Raise(a))

\* the values of randint(1, range) the model draws: both ends and 2
RandomPicks(range) == IF range > 0 THEN {1, range} \cup ({2} \cap 1..range) ELSE {0}

op_push(s, operands) ==
    WithArgs(s, operands, 1, LAMBDA a :
        IF Depth(a) = 0 THEN Raise(a)
        ELSE [a EXCEPT !.call_stack[Depth(a)].data_stack = Append(@, Arg(operands, 0))])

\* a pull that stores the top value and leaves it on the stack
op_pull_without_pop(s, operands) ==
    WithArgs(s, operands, 1, LAMBDA a :
        IF Depth(a) = 0 \/ Len(Top(a).data_stack) = 0 THEN Raise(a)
        ELSE LET st == Top(a).data_stack IN
             write_variable(a, Arg(operands, 0), st[Len(st)]))

op_pull(s, operands) ==
    WithArgs(s, operands, 1, LAMBDA a :
        IF Depth(a) = 0 \/ Len(Top(a).data_stack) = 0 THEN Raise(a)
        ELSE LET st == Top(a).data_stack IN
             write_variable(
                 [a EXCEPT !.call_stack[Depth(a)].data_stack = SubSeq(st, 1, Len(st) - 1)],
                 Arg(operands, 0), st[Len(st)]))

get_object_address(obj) ==
    object_table_addr + (max_properties - 1) * 2 + (obj - 1) * object_size

(***************************************************************************)
(* Input: sread, tokenize_line, find_word                                  *)
(***************************************************************************)
h_words_offset == 8

\* the characters of a str as codes, and the str of a sequence of codes
RECURSIVE CodesOf(_)
CodesOf(str) ==
    IF Len(str) = 0 THEN <<>>
    ELSE <<Ord(CharAt(str, 1))>> \o CodesOf(SubSeq(str, 2, Len(str)))

RECURSIVE StrOf(_)
StrOf(codes) == IF codes = <<>> THEN "" ELSE Chr(Head(codes)) \o StrOf(Tail(codes))

\* the lines the user types
InputLines ==
    {"go", "take lamp", "go go", "lamp take go", "take a lamp", "~go lamp", "Go", "go  lamp",
     "lamps", "lam lamp", "go,lamp"}

op_print_obj(s, operands) ==
    WithArgs(s, operands, 1, LAMBDA a :
        IF Arg(operands, 0) = 0 THEN a
        ELSE Bind(read_word(a, get_object_address(Arg(operands, 0)) + property_offset),
                  LAMBDA t :
                      Let(decode_string(t.memory, t.ret + 1), LAMBDA text :
                          IF text.ok THEN print_text(t, text.text) ELSE Raise(t))))

show_status(s) ==
    Bind(read_variable(s, 16), LAMBDA t :
        IF t.ret # 0
        THEN Bind(read_variable(t, 16), LAMBDA u : op_print_obj(u, <<u.ret>>))
        ELSE t)

\* the leading "~" of a line only set the debug level
RECURSIVE StripTildes(_)
StripTildes(str) ==
    IF Len(str) > 0 /\ CharAt(str, 1) = "~"
    THEN StripTildes(SubSeq(str, 2, Len(str)))
    ELSE str

\* the loop that stores the line in the text buffer, from its first byte
RECURSIVE WriteText(_, _, _, _, _)
WriteText(s, cbuf, codes, i, max_len) ==
    IF i >= max_len \/ s.status # "ok" THEN s
    ELSE WriteText(write_byte(s, cbuf + i, IF i < Len(codes) THEN codes[i + 1] ELSE 0),
                   cbuf, codes, i + 1, max_len)

\* the number of bytes from addr before the first zero byte
RECURSIVE StrLen(_, _, _)
StrLen(m, addr, n) == IF ByteAt(m, addr + n) = 0 THEN n ELSE StrLen(m, addr, n + 1)

\* re.split on a class of single characters
RECURSIVE Split(_, _, _)
Split(buff, delims, token) ==
    IF buff = <<>> THEN <<token>>
    ELSE IF Head(buff) \in delims THEN <<token>> \o Split(Tail(buff), delims, <<>>)
    ELSE Split(Tail(buff), delims, Append(token, Head(buff)))

\* str.find: the lowest index at which token occurs in buff
Find(buff, token) ==
    LET hits == { i \in 0..(Len(buff) - Len(token)) :
                      SubSeq(buff, i + 1, i + Len(token)) = token }
    IN  IF hits = {} THEN 0 - 1 ELSE CHOOSE i \in hits : \A j \in hits : i <= j

\* the start position of the binary chop
RECURSIVE ChopLoop(_, _)
ChopLoop(chop, word_index) ==
    IF word_index = 0 THEN chop ELSE ChopLoop(chop * 2, word_index \div 2)

ChopStart(dictionary_size) == ChopLoop(2, dictionary_size \div 4)

\* the binary chop of find_word in the dictionary d on memory m
RECURSIVE ChopSearch(_, _, _, _, _)
ChopSearch(m, d, buff, chop, word_index) ==
    IF chop <= 0 THEN 0
    ELSE LET half == chop \div 2
             index == IF word_index > d.size - 1 THEN d.size - 1 ELSE word_index
             offset == d.offset + index * d.entry_size
             status1 == buff[1] - WordAt(m, offset)
             status2 == buff[2] - WordAt(m, offset + 2)
             up == IF index + half >= d.size THEN d.size - 1 ELSE index + half
             down == IF index - half < 0 THEN 0 ELSE index - half
         IN  IF status1 = 0 /\ status2 = 0 THEN offset
             ELSE ChopSearch(m, d, buff, half, IF status1 > 0 THEN up ELSE down)

find_word(m, d, token, chop) ==
    IF d.size = 0 THEN [ok |-> TRUE, word |-> 0]
    ELSE Let(encode_string(Len(token), StrOf(token)), LAMBDA e :
             IF ~e.ok THEN [ok |-> FALSE, word |-> 0]
             ELSE [ok |-> TRUE, word |-> ChopSearch(m, d, e.buffer, chop, chop - 1)])

\* the loop over the tokens of tokenize_line; words counts the entries written
RECURSIVE TokenLoop(_, _, _, _)
TokenLoop(s, c, tokens, words) ==
    IF tokens = <<>> THEN [s |-> s, words |-> words]
    ELSE Let(find_word(s.memory, c.d, Head(tokens), c.chop), LAMBDA w :
             IF ~w.ok THEN [s |-> Raise(s), words |-> words]
             ELSE IF words <= c.max_tokens
             THEN TokenLoop(
                      write_byte(
                          write_byte(
                              write_byte(
                                  write_byte(s, 2 + c.token_buf + words * 4, Shr(w.word, 8)),
                                  2 + c.token_buf + words * 4 + 1, w.word % 256),
                              2 + c.token_buf + words * 4 + 2, Len(Head(tokens))),
                          2 + c.token_buf + words * 4 + 3, Find(c.buff, Head(tokens))),
                      c, Tail(tokens), words + 1)
             ELSE TokenLoop(s, c, Tail(tokens), words))

\* the separators of the dictionary are taken as plain characters of the
\* class; with no dictionary entry chop is unassigned and find_word's call raises
tokenize_line(s, char_buf, token_buf, dictionary) ==
    LET m == s.memory
        buff == [i \in 1..StrLen(m, char_buf, 0) |-> ByteAt(m, char_buf + i - 1)]
        dictp == WordAt(m, dictionary)
        count == ByteAt(m, dictp)
        delims == { ByteAt(m, dictp + i) : i \in 1..count } \cup {32, 9, 10, 13, 12, 46, 44, 63}
        d == [size |-> WordAt(m, dictp + 2 + count), offset |-> dictp + 4 + count,
              entry_size |-> ByteAt(m, dictp + 1 + count)]
    IN  IF d.size = 0 THEN Raise(s)
        ELSE Let(TokenLoop(s, [buff |-> buff, d |-> d, chop |-> ChopStart(d.size),
                               token_buf |-> token_buf, max_tokens |-> ByteAt(m, token_buf)],
                           Split(buff, delims, <<>>), 0),
                 LAMBDA r :
                     IF r.s.status # "ok" THEN r.s
                     ELSE write_byte(write_byte(r.s, token_buf, 59), token_buf + 1, r.words))

\* line is what get_input returns
op_sread(s, operands, line) ==
    IF ~HasArgs(operands, 2) THEN s
    ELSE Bind(show_status(s), LAMBDA t :
         Let([print_text(t, "\n") EXCEPT !.instruction_count = 1], LAMBDA u :
         Let(WriteText(u, Arg(operands, 0), CodesOf(StripTildes(line)), 0,
                       ByteAt(u.memory, Arg(operands, 0))),
             LAMBDA v :
                 IF v.status = "ok" /\ Arg(operands, 1) # 0
                 THEN tokenize_line(v, Arg(operands, 0), Arg(operands, 1), h_words_offset)
                 ELSE v)))

(***************************************************************************)
(* The object tree: remove_object, insert_obj                              *)
(***************************************************************************)
\* the loop that walks down the chain from child to the object before obj:
\* the address of that object's next field, or -1 when the walk comes back
\* to an object it has left, since then the loop has no end
RECURSIVE ChainWalk(_, _, _, _)
ChainWalk(m, obj, child, seen) ==
    LET childp == get_object_address(child)
        next == ByteAt(m, childp + object_next)
    IN  IF next = obj THEN childp + object_next
        ELSE IF next \in seen THEN 0 - 1
        ELSE ChainWalk(m, obj, next, seen \cup {next})

\* an unlinking that only clears the parent and the sibling of the object
remove_object_cleared(s, obj) ==
    Let(get_object_address(obj), LAMBDA objp :
        Bind(read_byte(s, objp + object_parent), LAMBDA t :
            IF t.ret = 0 THEN t
            ELSE Bind(write_byte(t, objp + object_parent, 0), LAMBDA x :
                     write_byte(x, objp + object_next, 0))))

remove_object(s, obj) ==
    Let(get_object_address(obj), LAMBDA objp :
        Bind(read_byte(s, objp + object_parent), LAMBDA t :
            IF t.ret = 0 THEN t
            ELSE Let(get_object_address(t.ret), LAMBDA parentp :
                 Bind(read_byte(t, parentp + object_child), LAMBDA c :
                 Let(IF c.ret = obj THEN parentp + object_child
                     ELSE ChainWalk(c.memory, obj, c.ret, {c.ret}),
                     LAMBDA link :
                         IF link < 0 THEN Hang(c)
                         ELSE Bind(read_byte(c, objp + object_next), LAMBDA n :
                              Bind(write_byte(n, link, n.ret), LAMBDA w :
                              Bind(write_byte(w, objp + object_parent, 0), LAMBDA x :
                                  write_byte(x, objp + object_next, 0)))))))))

\* an insertion that leaves the object in the chain it was in
op_insert_obj_unremoved(s, operands) ==
    WithArgs(s, operands, 2, LAMBDA a :
        Let([obj1p |-> get_object_address(Arg(operands, 0)),
             obj2p |-> get_object_address(Arg(operands, 1))],
            LAMBDA p :
                Bind(write_byte(a, p.obj1p + object_parent, Arg(operands, 1)), LAMBDA w :
                Bind(read_byte(w, p.obj2p + object_child), LAMBDA c :
                Bind(write_byte(c, p.obj2p + object_child, Arg(operands, 0)), LAMBDA v :
                    IF c.ret # 0
                    THEN write_byte(v, p.obj1p + object_next, c.ret)
                    ELSE v)))))

op_insert_obj(s, operands) ==
    WithArgs(s, operands, 2, LAMBDA a :
        Let([obj1p |-> get_object_address(Arg(operands, 0)),
             obj2p |-> get_object_address(Arg(operands, 1))],
            LAMBDA p :
                Bind(remove_object(a, Arg(operands, 0)), LAMBDA r :
                Bind(write_byte(r, p.obj1p + object_parent, Arg(operands, 1)), LAMBDA w :
                Bind(read_byte(w, p.obj2p + object_child), LAMBDA c :
                Bind(write_byte(c, p.obj2p + object_child, Arg(operands, 0)), LAMBDA v :
                    IF c.ret # 0
                    THEN write_byte(v, p.obj1p + object_next, c.ret)
                    ELSE v))))))

(***************************************************************************)
(* Properties: get_prop, put_prop                                          *)
(***************************************************************************)
property_mask == max_properties - 1

get_property_addr(s, obj) ==
    Bind(read_word(s, get_object_address(obj) + property_offset), LAMBDA t :
        Bind(read_byte(t, t.ret), LAMBDA u : Return(u, t.ret + u.ret * 2 + 1)))

get_next_prop(m, prop_addr) == prop_addr + 1 + Shr(ByteAt(m, prop_addr), 5) + 1

\* the scan of op_get_prop down the property list: the address it stops at
RECURSIVE ScanProps(_, _, _)
ScanProps(m, prop_addr, prop) ==
    IF ByteAt(m, prop_addr) % 32 <= prop THEN prop_addr
    ELSE ScanProps(m, get_next_prop(m, prop_addr), prop)

\* the scan of op_put_prop, with its second exit, `value & (property_mask
\* <= prop)`, taken after the step to the next property on the size byte left
RECURSIVE ScanToPut(_, _, _)
ScanToPut(m, prop_addr, prop) ==
    Let(ByteAt(m, prop_addr), LAMBDA value :
        IF value % 32 <= prop THEN [prop_addr |-> prop_addr, value |-> value]
        ELSE IF property_mask <= prop /\ value % 2 = 1
        THEN [prop_addr |-> get_next_prop(m, prop_addr), value |-> value]
        ELSE ScanToPut(m, get_next_prop(m, prop_addr), prop))

op_get_prop(s, operands) ==
    WithArgs(s, operands, 2, LAMBDA a :
        Bind(get_property_addr(a, Arg(operands, 0)), LAMBDA p :
            Let(ScanProps(p.memory, p.ret, Arg(operands, 1)), LAMBDA prop_addr :
            Let(ByteAt(p.memory, prop_addr), LAMBDA value :
                Bind(IF value % 32 = Arg(operands, 1)
                     THEN IF value \div 32 = 0
                          THEN read_byte(p, prop_addr + 1)
                          ELSE read_word(p, prop_addr + 1)
                     ELSE read_word(p, object_table_addr + (Arg(operands, 1) - 1) * 2),
                     LAMBDA r : store_result(r, r.ret))))))

\* a put_prop that stores the low byte whatever the size of the property
op_put_prop_byte(s, operands) ==
    WithArgs(s, operands, 3, LAMBDA a :
        Bind(get_property_addr(a, Arg(operands, 0)), LAMBDA p :
            Let(ScanToPut(p.memory, p.ret, Arg(operands, 1)), LAMBDA at :
                IF at.value % 32 # Arg(operands, 1) THEN Raise(p)
                ELSE write_byte(p, at.prop_addr + 1, Arg(operands, 2)))))

\* with no such property the error is reported through self.vm, which the
\* processor does not have: AttributeError
op_put_prop(s, operands) ==
    WithArgs(s, operands, 3, LAMBDA a :
        Bind(get_property_addr(a, Arg(operands, 0)), LAMBDA p :
            Let(ScanToPut(p.memory, p.ret, Arg(operands, 1)), LAMBDA at :
                IF at.value % 32 # Arg(operands, 1) THEN Raise(p)
                ELSE IF at.value \div 32 = 0
                THEN write_byte(p, at.prop_addr + 1, Arg(operands, 2))
                ELSE write_word(p, at.prop_addr + 1, Arg(operands, 2)))))

AttrMask(bit) == Pow2(7 - (bit % 8))

op_test_attr(s, operands) ==
    WithArgs(s, operands, 2, LAMBDA a :
        Bind(read_byte(a, get_object_address(Arg(operands, 0)) + Shr(Arg(operands, 1), 3)),
             LAMBDA t : branch(t, Bit(t.ret, 7 - (Arg(operands, 1) % 8)) = 1)))

\* a set_attr that counts the attributes of a byte from its lowest bit
op_set_attr_from_low_bit(s, operands) ==
    WithArgs(s, operands, 2, LAMBDA a :
        LET objp == get_object_address(Arg(operands, 0)) + Shr(Arg(operands, 1), 3) IN
        Bind(read_byte(a, objp), LAMBDA t :
             write_byte(t, objp,
                 IF Bit(t.ret, Arg(operands, 1) % 8) = 1 THEN t.ret
                 ELSE t.ret + Pow2(Arg(operands, 1) % 8))))

op_set_attr(s, operands) ==
    WithArgs(s, operands, 2, LAMBDA a :
        LET objp == get_object_address(Arg(operands, 0)) + Shr(Arg(operands, 1), 3) IN
        Bind(read_byte(a, objp), LAMBDA t :
             write_byte(t, objp,
                 IF Bit(t.ret, 7 - (Arg(operands, 1) % 8)) = 1 THEN t.ret
                 ELSE t.ret + AttrMask(Arg(operands, 1)))))

op_clear_attr(s, operands) ==
    WithArgs(s, operands, 2, LAMBDA a :
        LET objp == get_object_address(Arg(operands, 0)) + Shr(Arg(operands, 1), 3) IN
        Bind(read_byte(a, objp), LAMBDA t :
             write_byte(t, objp,
                 IF Bit(t.ret, 7 - (Arg(operands, 1) % 8)) = 1
                 THEN t.ret - AttrMask(Arg(operands, 1)) ELSE t.ret)))

\* the loop of op_call that fills the new frame's locals: args locals remain
\* to be read, i is the next local, argc the arguments not yet used
RECURSIVE InitLocals(_, _, _, _, _, _)
InitLocals(s, f, operands, args, i, argc) ==
    IF args = 0 THEN [s |-> s, f |-> f]
    ELSE LET r == read_word(s, s.pc) IN
         IF r.status # "ok" THEN [s |-> r, f |-> f]
         ELSE LET t == [r EXCEPT !.pc = @ + 2]
                  arg == IF r.ret > 0 /\ r.ret >= 32768 THEN r.ret - 65536 ELSE r.ret
              IN  IF i > NumLocals THEN [s |-> Raise(t), f |-> f]
                  ELSE InitLocals(t,
                           [f EXCEPT !.local_vars[i] =
                                IF argc > 0 THEN Arg(operands, i) ELSE arg],
                           operands, args - 1, i + 1, argc - 1)

\* a call that does not compare the depth with STACK_SIZE
op_call_unchecked(s, operands) ==
    WithArgs(s, operands, 1, LAMBDA a :
        IF Arg(operands, 0) = 0 THEN store_result(a, 0)
        ELSE LET f0 == [Frame EXCEPT !.return_pointer = a.pc,
                                     !.arg_count = Len(operands) - 1,
                                     !.count = Len(operands)]
                 target == [a EXCEPT !.pc = Arg(operands, 0) * address_scaler]
             IN  Bind(read_byte(target, target.pc), LAMBDA t :
                     LET r == InitLocals([t EXCEPT !.pc = @ + 1], f0, operands,
                                         t.ret, 1, Len(operands) - 1)
                     IN  IF r.s.status # "ok" THEN r.s
                         ELSE [r.s EXCEPT !.call_stack = Append(@, r.f)]))

op_call(s, operands) ==
    WithArgs(s, operands, 1, LAMBDA a :
        IF Arg(operands, 0) = 0 THEN store_result(a, 0)
        ELSE IF Depth(a) >= STACK_SIZE
        THEN SysExit(print_error(a, "*** ERROR: stack is out of memory"))
        ELSE LET f0 == [Frame EXCEPT !.return_pointer = a.pc,
                                     !.arg_count = Len(operands) - 1,
                                     !.count = Len(operands)]
                 target == [a EXCEPT !.pc = Arg(operands, 0) * address_scaler]
             IN  Bind(read_byte(target, target.pc), LAMBDA t :
                     LET r == InitLocals([t EXCEPT !.pc = @ + 1], f0, operands,
                                         t.ret, 1, Len(operands) - 1)
                     IN  IF r.s.status # "ok" THEN r.s
                         ELSE [r.s EXCEPT !.call_stack = Append(@, r.f)]))

(***************************************************************************)
(* The run loop                                                            *)
(***************************************************************************)
VARIABLES
    pc,                 \* ZMachine.pc
    memory,             \* ZMachine.memory, sparse
    call_stack,         \* ZMachine.call_stack
    game_running,       \* ZMachine.game_running
    output,             \* the texts handed to the Screen by print_text
    instruction_count,  \* ZProcessor.instruction_count
    opcode,             \* ZMachine.opcode, the key last dispatched
    operands,           \* the operands of the last fetched instruction
    opcode_byte,        \* the opcode byte of the last fetched instruction
    fetch_pc,           \* the PC at which the last fetch started (the first one: the initial PC)
    ctl,                \* where execute_game is: start, loop, done, exit
    save_file,          \* the save file on the host's file system
    saved,              \* pc, memory and call_stack when save_game was last called
    host_budget,        \* how many more times the host calls save_game or restore_game
    host_last,          \* the last call of the host and what it returned
    story_file          \* the story file in STORY_DIR, as load_story read it

vars == <<pc, memory, call_stack, game_running, output, instruction_count,
          opcode, operands, opcode_byte, fetch_pc, ctl,
          save_file, saved, host_budget, host_last, story_file>>

hostvars == <<save_file, saved, host_budget, host_last, story_file>>

VM == [pc |-> pc, memory |-> memory, call_stack |-> call_stack,
       game_running |-> game_running, output |-> output,
       instruction_count |-> instruction_count, status |-> "ok", ret |-> 0]

Decoded == fetch_instruction(VM)

\* the condition of the while loop of execute_game
LoopGuard == game_running /\ pc < MemLen

\* a start of the run that creates no frame
init_frame_without_frame ==
    /\ ctl = "start"
    /\ ctl' = "loop"
    /\ UNCHANGED <<pc, memory, call_stack, game_running, output,
                   instruction_count, opcode, operands, opcode_byte, fetch_pc>>
    /\ UNCHANGED hostvars

\* the processor starts a new frame for the main routine
init_frame ==
    /\ ctl = "start"
    /\ call_stack' = Append(call_stack,
                        [Frame EXCEPT !.return_pointer = WordAt(memory, 6)])
    /\ ctl' = "loop"
    /\ UNCHANGED <<pc, memory, game_running, output, instruction_count,
                   opcode, operands, opcode_byte, fetch_pc>>
    /\ UNCHANGED hostvars

\* the state left by execute_instruction: the debug lines after a handler
\* read call_stack[-1], an exception is caught and reported, SystemExit
\* leaves the run loop
Commit(r) ==
    LET traced == IF r.status = "ok" /\ Depth(r) = 0 THEN Raise(r) ELSE r
        final == IF traced.status = "exception"
                 THEN [print_error(traced, "*** ERROR: Execution error")
                          EXCEPT !.game_running = FALSE]
                 ELSE traced
    IN  /\ pc' = final.pc
        /\ memory' = final.memory
        /\ call_stack' = final.call_stack
        /\ game_running' = final.game_running
        /\ output' = final.output
        /\ instruction_count' = final.instruction_count
        /\ ctl' = IF r.status \in {"exit", "hang"} THEN r.status ELSE "loop"
        /\ UNCHANGED hostvars

\* what the loop remembers of the fetched instruction d
Fetched(d) ==
    /\ operands' = d.operands
    /\ opcode_byte' = d.opcode_byte
    /\ fetch_pc' = d.start

\* fetch_instruction raised: nothing is dispatched
FetchError ==
    /\ ctl = "loop" /\ LoopGuard
    /\ \E d \in {Decoded} :
        /\ d.s.status = "exception"
        /\ Commit(d.s)
        /\ Fetched(d)
    /\ UNCHANGED opcode

\* the state after the instruction d was counted
Counted(d) == [d.s EXCEPT !.instruction_count = @ + 1]

\* the instruction counter passed maxcount
InstructionLimit ==
    /\ ctl = "loop" /\ LoopGuard
    /\ \E d \in {Decoded} :
        /\ d.s.status = "ok"
        /\ instruction_count + 1 > maxcount
        /\ Commit(SysExit(print_error(Counted(d), "*** ERROR: instruction limit reached")))
        /\ Fetched(d)
    /\ UNCHANGED opcode

\* the instruction at the PC has the key k, by its opcode byte
AtKey(k) ==
    /\ ctl = "loop" /\ LoopGuard
    /\ ~IndexError(pc)
    /\ KeyOfByte(ByteAt(memory, pc)) = k

\* the fetched instruction d is looked up under the key k
Dispatched(d, k) ==
    /\ d.s.status = "ok"
    /\ instruction_count + 1 <= maxcount
    /\ KeyOf(d) = k
    /\ opcode' = k
    /\ Fetched(d)

\* the instruction at the PC is fetched and the handler H of key k runs on it
Handled(k, H(_, _)) ==
    \E d \in {Decoded} :
        /\ Dispatched(d, k)
        /\ Commit(H(Counted(d), d.operands))

\* no entry of the dispatch table
Unimplemented ==
    /\ ctl = "loop" /\ LoopGuard
    /\ ~IndexError(pc)
    /\ KeyOfByte(ByteAt(memory, pc)) \notin opcodes
    /\ \E d \in {Decoded} :
        /\ Dispatched(d, KeyOf(d))
        /\ Commit(SysExit(print_error(Counted(d), "*** ERROR: Unimplemented opcode")))

\* one action per entry of the dispatch table
rtrue      == AtKey(48) /\ Handled(48, op_rtrue)
rfalse     == AtKey(49) /\ Handled(49, op_rfalse)
ret_popped == AtKey(56) /\ Handled(56, op_ret_popped)
catch      == AtKey(57) /\ Handled(57, op_catch)
quit       == AtKey(58) /\ Handled(58, op_quit)
new_line   == AtKey(59) /\ Handled(59, op_new_line)
jz         == AtKey(128) /\ Handled(128, op_jz)
inc        == AtKey(133) /\ Handled(133, op_inc)
dec        == AtKey(134) /\ Handled(134, op_dec)
ret        == AtKey(139) /\ Handled(139, op_ret)
jump       == AtKey(140) /\ Handled(140, op_jump)
load       == AtKey(142) /\ Handled(142, op_load)
not        == AtKey(143) /\ Handled(143, op_not)
je         == AtKey(1) /\ Handled(1, op_je)
jl         == AtKey(2) /\ Handled(2, op_jl)
jg         == AtKey(3) /\ Handled(3, op_jg)
dec_chk    == AtKey(4) /\ Handled(4, op_dec_chk)
inc_chk    == AtKey(5) /\ Handled(5, op_inc_chk)
insert_obj == AtKey(14) /\ Handled(14, op_insert_obj)
get_prop   == AtKey(17) /\ Handled(17, op_get_prop)
put_prop   == AtKey(35) /\ Handled(35, op_put_prop)
test       == AtKey(7) /\ Handled(7, op_test)
test_attr  == AtKey(10) /\ Handled(10, op_test_attr)
set_attr   == AtKey(11) /\ Handled(11, op_set_attr)
clear_attr == AtKey(12) /\ Handled(12, op_clear_attr)
store      == AtKey(13) /\ Handled(13, op_store)
loadw      == AtKey(15) /\ Handled(15, op_loadw)
loadb      == AtKey(16) /\ Handled(16, op_loadb)
add        == AtKey(20) /\ Handled(20, op_add)
sub        == AtKey(21) /\ Handled(21, op_sub)
call       == AtKey(32) /\ Handled(32, op_call)
storew     == AtKey(33) /\ Handled(33, op_storew)
storeb     == AtKey(34) /\ Handled(34, op_storeb)
print      == AtKey(50) /\ Handled(50, op_print)
sread ==
    /\ AtKey(36)
    /\ \E d \in {Decoded} :
        /\ Dispatched(d, 36)
        /\ \E line \in InputLines : Commit(op_sread(Counted(d), d.operands, line))
print_obj  == AtKey(138) /\ Handled(138, op_print_obj)
random ==
    /\ AtKey(39)
    /\ \E d \in {Decoded} :
        /\ Dispatched(d, 39)
        /\ \E pick \in RandomPicks(IF d.operands = <<>> THEN 0 ELSE d.operands[1]) :
              Commit(op_random(Counted(d), d.operands, pick))
mul        == AtKey(22) /\ Handled(22, op_mul)
div        == AtKey(23) /\ Handled(23, op_div)
mod        == AtKey(24) /\ Handled(24, op_mod)
print_num  == AtKey(38) /\ Handled(38, op_print_num)
push       == AtKey(40) /\ Handled(40, op_push)
pull       == AtKey(41) /\ Handled(41, op_pull)

\* the while loop of execute_game ends
LoopExit ==
    /\ ctl = "loop" /\ ~LoopGuard
    /\ output' = IF game_running THEN output
                 ELSE Append(output, "game is no longer running (interrupted?)\n")
    /\ ctl' = "done"
    /\ UNCHANGED <<pc, memory, call_stack, game_running, instruction_count,
                   opcode, operands, opcode_byte, fetch_pc>>
    /\ UNCHANGED hostvars

\* the host interrupts the loop between two instructions
KeyboardInterrupt ==
    /\ ctl = "loop" /\ LoopGuard
    /\ output' = Append(output, "\nGame interrupted by user")
    /\ game_running' = FALSE
    /\ ctl' = "done"
    /\ UNCHANGED <<pc, memory, call_stack, instruction_count,
                   opcode, operands, opcode_byte, fetch_pc>>
    /\ UNCHANGED hostvars

(***************************************************************************)
(* save_game and restore_game, called by the host between two instructions *)
(* A save file holds, in this order, the magic, the version byte, the PC,  *)
(* the size and the bytes of dynamic memory and the number of frames; len  *)
(* tells how many of the fields after the magic were written, a field that *)
(* was not written reads as b'', the number 0.                             *)
(***************************************************************************)
z_version == Header[0]

NoBytes == [a \in {} |-> 0]

NoFile == [exists |-> FALSE, magic |-> "", len |-> 0, version |-> 0, pc |-> 0,
           mem_size |-> 0, mem |-> NoBytes, stack_size |-> 0]

\* the file f cut after n of its fields
Truncated(f, n) ==
    [f EXCEPT !.len = n,
              !.version = IF n >= 1 THEN @ ELSE 0,
              !.pc = IF n >= 2 THEN @ ELSE 0,
              !.mem_size = IF n >= 3 THEN @ ELSE 0,
              !.mem = IF n >= 4 THEN @ ELSE NoBytes,
              !.stack_size = IF n >= 5 THEN @ ELSE 0]

\* what save_game leaves in the file: to_bytes(1) without a byte order
\* raises where the platform has no default for it, to_bytes(2, 'big')
\* raises for a PC outside 0..65535, and serialize() of the first frame
\* raises because Frame has no such method
WrittenFile(default_byteorder) ==
    LET mem_size == WordAt(memory, 14)
        full == [exists |-> TRUE, magic |-> "ZSAV", len |-> 5,
                 version |-> z_version, pc |-> pc, mem_size |-> mem_size,
                 mem |-> [a \in 0..(mem_size - 1) |-> Cell(memory, a)],
                 stack_size |-> Len(call_stack)]
    IN  IF ~default_byteorder THEN Truncated(full, 0)
        ELSE IF pc \notin 0..65535 THEN Truncated(full, 1)
        ELSE full

save_game ==
    /\ ctl = "loop" /\ host_budget > 0
    /\ \E default_byteorder \in BOOLEAN :
          LET f == WrittenFile(default_byteorder)
              done == f.len = 5 /\ call_stack = <<>>
          IN  /\ save_file' = f
              /\ output' = output \o <<"Enter file name (default):",
                               IF done THEN "Game saved as default"
                               ELSE "*** ERROR: Save failed">>
              /\ host_last' = [op |-> "save", own |-> TRUE, magic |-> f.magic,
                               version |-> f.version, ok |-> done]
    /\ saved' = [pc |-> pc, memory |-> memory, call_stack |-> call_stack]
    /\ host_budget' = host_budget - 1
    /\ UNCHANGED <<pc, memory, call_stack, game_running, instruction_count,
                   opcode, operands, opcode_byte, fetch_pc, ctl, story_file>>

\* memory[0:mem_size] = f.read(mem_size)
Overlay(m, f) ==
    [a \in DOMAIN m \cup DOMAIN f.mem |-> IF a \in DOMAIN f.mem THEN f.mem[a] ELSE m[a]]

\* a restore that takes the PC from the file before it looks at the version
RestoreOutcome_pc_before_version(file, default_byteorder) ==
    LET failed == [pc |-> pc, memory |-> memory, call_stack |-> call_stack, ok |-> FALSE]
    IN  IF ~file.exists \/ file.magic # "ZSAV" \/ ~default_byteorder THEN failed
        ELSE IF file.version # z_version THEN [failed EXCEPT !.pc = file.pc]
        ELSE [pc |-> file.pc, memory |-> Overlay(memory, file),
              call_stack |-> <<>>, ok |-> file.stack_size = 0]

\* pc, memory and call_stack after restore_game, and what it returns:
\* unserialize() of the first frame raises because Frame has no such method
RestoreOutcome(file, default_byteorder) ==
    LET failed == [pc |-> pc, memory |-> memory, call_stack |-> call_stack, ok |-> FALSE]
    IN  IF ~file.exists \/ file.magic # "ZSAV" \/ ~default_byteorder THEN failed
        ELSE IF file.version # z_version THEN failed
        ELSE [pc |-> file.pc, memory |-> Overlay(memory, file),
              call_stack |-> <<>>, ok |-> file.stack_size = 0]

\* files that save_game did not write: a complete one, one with another
\* magic, one of another version
ForeignFile ==
    [exists |-> TRUE, magic |-> "ZSAV", len |-> 5, version |-> z_version,
     pc |-> R1Addr, mem_size |-> 2, mem |-> [a \in 0..1 |-> 9], stack_size |-> 0]

ForeignFiles ==
    {ForeignFile, [ForeignFile EXCEPT !.magic = "ZSAW"],
     [ForeignFile EXCEPT !.version = 5]}

restore_game ==
    /\ ctl = "loop" /\ host_budget > 0
    /\ \E file \in {save_file} \cup ForeignFiles, default_byteorder \in BOOLEAN :
          LET r == RestoreOutcome(file, default_byteorder)
          IN  /\ pc' = r.pc
              /\ memory' = r.memory
              /\ call_stack' = r.call_stack
              /\ output' = output \o <<"Enter file name (default):",
                               IF r.ok THEN "Game restored from default"
                               ELSE "*** ERROR: Restore failed">>
              /\ host_last' = [op |-> "restore", own |-> file = save_file,
                               magic |-> file.magic, version |-> file.version,
                               ok |-> r.ok]
    /\ host_budget' = host_budget - 1
    /\ UNCHANGED <<game_running, instruction_count, opcode, operands,
                   opcode_byte, fetch_pc, ctl, save_file, saved, story_file>>

\* memory[0:mem_size] = f.read(mem_size) of the story file, with the
\* mem_size that header word 0x0E of the memory holds at the call
Reloaded(m, file) ==
    LET mem_size == WordAt(m, 14)
    IN  [a \in DOMAIN m \cup {x \in DOMAIN file : x < mem_size} |->
            IF a < mem_size THEN Cell(file, a) ELSE m[a]]

\* the host restarts the game: os.stat raises when the story file is gone;
\* otherwise the low memory is read again, the PC is taken from the header
\* and init_frame appends a frame to the call stack as it is
restart_game ==
    /\ ctl = "loop" /\ host_budget > 0
    /\ \E found \in BOOLEAN :
          /\ memory' = IF found THEN Reloaded(memory, story_file) ELSE memory
          /\ pc' = IF found THEN WordAt(memory', 6) ELSE pc
          /\ call_stack' =
                IF found
                THEN Append(call_stack,
                            [Frame EXCEPT !.return_pointer = WordAt(memory', 6)])
                ELSE call_stack
          /\ output' = IF found THEN output
                       ELSE output \o <<"*** ERROR: Restart failed">>
          /\ host_last' = [op |-> "restart", own |-> FALSE, magic |-> "",
                           version |-> 0, ok |-> found]
    /\ host_budget' = host_budget - 1
    /\ UNCHANGED <<game_running, instruction_count, opcode, operands,
                   opcode_byte, fetch_pc, ctl, save_file, saved, story_file>>

(***************************************************************************)
(* The stories the model runs: two instructions of the main routine, then  *)
(* quit; routine R1 with one local and a chosen body; routine R2, which    *)
(* calls itself; and code reached only through a negative PC               *)
(***************************************************************************)
Catalogue == <<
    <<186>>,                             \* quit
    <<176>>,                             \* rtrue
    <<177>>,                             \* rfalse
    <<184>>,                             \* ret_popped
    <<232, 127, 5>>,                     \* push 5
    <<233, 127, 16>>,                    \* pull G0
    <<224, 63, R1Hi, R1Lo, 0>>,          \* call R1 -> sp
    <<224, 31, R1Hi, R1Lo, 7, 16>>,      \* call R1 7 -> G0
    <<116, 0, 0, 0>>,                    \* add sp sp -> sp
    <<226, 23, 64, 0, 0, 255>>,          \* storeb 0x4000 0 255
    <<230, 191, 0>>,                     \* print_num sp
    <<187>>,                             \* new_line
    <<180>>,                             \* 0xB4 (nop): no handler
    <<185>>,                             \* 0xB9 (pop): dispatched to op_catch
    <<224, 63, 0, 0, 0>>,                \* call 0 -> sp
    <<224, 63, 128, 0, 0>>,              \* call 0x8000 -> sp
    <<232, 191, 0>>,                     \* push sp
    <<226, 23, 0, 80, 1, 9>>,            \* storeb 0x0050 1 9
    <<225, 19, 0, 80, 0, 18, 52>>,       \* storew 0x0050 0 0x1234
    <<225, 19, 3, 0, 0, 18, 52>>,        \* storew 0x0300 0 0x1234
    <<225, 19, 241, 0, 0, 18, 52>>,      \* storew 0xF100 0 0x1234
    <<226, 23, 255, 255, 255, 1>>,       \* storeb 0xFFFF 255 1
    <<140, 0, 3>>,                       \* jump +3
    <<140, 235, 255>>,                   \* jump -5121
    <<144, 0, 193>>,                     \* jz 0 ?rtrue
    <<144, 0, 192>>,                     \* jz 0 ?rfalse
    <<144, 1, 193>>,                     \* jz 1 ?rtrue
    <<144, 0, 195>>,                     \* jz 0 ?+3
    <<1, 1, 1, 128, 5>>,                 \* je 1 1 ?+5 (two-byte offset)
    <<2, 1, 2, 194>>,                    \* jl 1 2 ?+2
    <<3, 2, 1, 65>>,                     \* jg 2 1 ?~rtrue
    <<116, 16, 17, 0>>,                  \* add G0 G1 -> sp
    <<21, 2, 3, 0>>,                     \* sub 2 3 -> sp
    <<16, 0, 0, 0>>,                     \* loadb 0 0 -> sp
    <<15, 0, 3, 16>>,                    \* loadw 0 3 -> G0
    <<13, 16, 5>>,                       \* store G0 5
    <<13, 255, 5>>,                      \* store G239 5
    <<158, 16, 0>>,                      \* load G0 -> sp
    <<149, 1>>,                          \* inc L1
    <<150, 16>>,                         \* dec G0
    <<159, 5, 0>>,                       \* not 5 -> sp
    <<155, 3>>,                          \* ret 3
    <<11, 1, 5>>,                        \* set_attr 1 5
    <<11, 40, 0>>,                       \* set_attr 40 0
    <<12, 1, 10>>,                       \* clear_attr 1 10
    <<10, 1, 10, 195>>,                  \* test_attr 1 10 ?+3
    <<0>>                                \* 2OP:0, no handler
    >>

\* how many entries of the catalogue, from its start, the second slot takes
NumSecond == 11

RoutineBodies == <<
    <<176>>,                             \* rtrue
    <<177>>,                             \* rfalse
    <<184>>,                             \* ret_popped
    <<171, 1>>,                          \* ret L1
    <<232, 127, 9, 184>>,                \* push 9; ret_popped
    <<144, 0, 192>>,                     \* jz 0 ?rfalse
    <<233, 127, 16>>,                    \* pull G0
    <<186>>                              \* quit
    >>

\* the string of every abbreviation that a story does not define: one word
\* with the end bit and three padding codes, which is no text
EmptyString == AbbrevAddr + 192

\* the three tables of 32 abbreviations, each entry a word address
AbbrevTable ==
    Place(AbbrevAddr, [i \in 1..192 |-> WordBytes(EmptyString \div 2)[2 - (i % 2)]])
    @@ Place(EmptyString, <<148, 165>>)

BaseImage ==
    Header @@ GlobalsImage @@ ObjectsImage @@ AbbrevTable
    @@ Place(R2Addr, <<0, 224, 63, R2Hi, R2Lo, 0>>)
    @@ Place(HighAddr, <<140, 128, 0>>)
    @@ Place(7 * 4096 + 1, <<140, 128, 0>>)

Story(main, body) ==
    BaseImage
    @@ Place(InitialPC, main \o <<186>>)
    @@ Place(R1Addr, <<1, 0, 2>> \o body \o <<186>>)

SecondSlot == 1..(IF NumSecond < Len(Catalogue) THEN NumSecond ELSE Len(Catalogue))

\* operand values of the arithmetic stories: zero, the extremes of both signs
\* and small values of both signs
ArithSamples == <<0, 1, 65535, 32768, 3, 32767, 65533, 7, 2, 65529>>

\* how many of the samples, from the start, each operand takes
NumArith == 7

ArithValues ==
    { ArithSamples[i] :
        i \in 1..(IF NumArith < Len(ArithSamples) THEN NumArith ELSE Len(ArithSamples)) }

\* a 2OP instruction in variable form with two large constants, result to sp
Arith2OP(op, a, b) == <<192 + op, 15>> \o WordBytes(a) \o WordBytes(b) \o <<0>>

\* the variables pulled into: the first and the last local, the first and
\* the last global
PullTargets == {1, 15, 16, 255}

\* push 5; push x; pull v
PushPullStories ==
    { Story(<<232, 127, 5>> \o <<232, 63>> \o WordBytes(x) \o <<233, 127, v>>,
            RoutineBodies[1]) : x \in ArithValues, v \in PullTargets }

\* the objects whose attributes the stories change: the first ones (object 1
\* has attribute 10 set) and the last one
AttrObjects == {1, 2, 4, 255}

\* set_attr o b (11) or clear_attr o b (12); test_attr o b ?+5; quit; ...; quit
AttrStories ==
    { Story(<<op, o, b>> \o <<10, o, b, 197>> \o <<186, 0, 0>>, RoutineBodies[1]) :
          op \in {11, 12}, o \in AttrObjects, b \in 0..31 }

\* the characters of the generated tokens: one of each table
TokenChars == {"a", "B", "7"}

\* how long the generated tokens are at most
MaxTokenLen == 4

RECURSIVE TokensOfLen(_)
TokensOfLen(n) ==
    IF n = 0 THEN {""} ELSE { tk \o c : tk \in TokensOfLen(n - 1), c \in TokenChars }

\* the generated tokens, and tokens of up to 6 characters that use the ends
\* of the tables
Tokens ==
    UNION { TokensOfLen(n) : n \in 1..MaxTokenLen }
    \cup {"abcdef", "zzzzzz", "abcdeF", "ZyxZ", "a)Z", "(-)", "a\nb", "0z9", "Hello."}

\* print, followed by the dictionary key of the token: the first two words
\* of the encoded buffer
KeyStories ==
    { Story(<<178>> \o WordBytes(encode_string(Len(tk), tk).buffer[1])
                    \o WordBytes(encode_string(Len(tk), tk).buffer[2]),
            RoutineBodies[1]) : tk \in Tokens }

\* random r -> sp for a range of 0, 1, 3 and for ranges with the top bit set
RandomStories ==
    { Story(<<231, 63>> \o WordBytes(r) \o <<0>>, RoutineBodies[1]) :
          r \in {0, 1, 3, 32768, 65535} }

\* jump with each kind of operand: a large constant, a small constant, a
\* variable (G0 holds 5, G1 holds 3)
JumpStories ==
    { Story(<<140, 0, 0>>, RoutineBodies[1]),        \* jump 0, large constant
      Story(<<140, 0, 2>>, RoutineBodies[1]),        \* jump 2, large constant
      Story(<<156, 0>>, RoutineBodies[1]),           \* jump 0, small constant
      Story(<<156, 5>>, RoutineBodies[1]),           \* jump 5, small constant
      Story(<<172, 16>>, RoutineBodies[1]),          \* jump G0
      Story(<<172, 17>>, RoutineBodies[1]) }         \* jump G1

ArithStories ==
    { Story(Arith2OP(op, a, b), RoutineBodies[1]) :
          op \in 20..24, a \in ArithValues, b \in ArithValues }
    \cup { Story(<<23, 7, 0, 0>> \o <<24, 7, 0, 0>>, RoutineBodies[1]),  \* div 7 0; mod 7 0
           Story(<<87, 7, 16, 16>>, RoutineBodies[1]) }                  \* div 7 G0 -> G0

\* first branch bytes with a two-byte offset (bit 6 clear) and with a
\* one-byte offset (bit 6 set), of both senses, and second bytes
LongBranchBytes == {0, 1, 2, 32, 63, 128, 129, 160, 191}
ShortBranchBytes == {64, 65, 66, 127, 192, 193, 194, 255}
SecondBranchBytes == {0, 1, 2, 255}

\* the branch bytes that follow the operands of a branch instruction
BranchTails ==
    { <<b0, b1>> : b0 \in LongBranchBytes, b1 \in SecondBranchBytes }
    \cup { <<b0>> : b0 \in ShortBranchBytes }

\* jz 0 and jz 1 with every branch tail, in the main routine and in R1
\* called from the main routine; the other branch instructions with a few
BranchStories ==
    { Story(<<144, v>> \o tail, RoutineBodies[1]) : v \in {0, 1}, tail \in BranchTails }
    \cup { Story(first, <<144, v>> \o tail) :
               first \in {Catalogue[7], Catalogue[8]}, v \in {0, 1}, tail \in BranchTails }
    \cup { Story(Catalogue[7], ins \o tail) :
               ins \in { <<1, 1, 1>>, <<1, 1, 2>>,            \* je 1 1, je 1 2
                         <<193, 87, 3, 1, 3>>,                \* je 3 1 3
                         <<2, 1, 2>>, <<3, 1, 2>>,            \* jl 1 2, jg 1 2
                         <<194, 15, 255, 255, 0, 1>>,         \* jl -1 1
                         <<7, 6, 2>>, <<7, 6, 3>> },          \* test 6 2, test 6 3
               tail \in { <<192>>, <<193>>, <<197>>, <<69>>, <<0, 0>>, <<128, 1>>, <<191, 255>> } }

\* bodies of R1 for the calls: the returns, and routines that use their own
\* stack and locals before they return
CallBodies ==
    { RoutineBodies[i] : i \in 1..6 }
    \cup { <<232, 127, 9, 176>>,                    \* push 9; rtrue
           <<233, 127, 16, 176>>,                   \* pull G0; rtrue
           <<13, 1, 5, 171, 1>>,                    \* store L1 5; ret L1
           <<171, 0>>,                              \* ret sp
           <<160, 1, 193, 224, 31, R1Hi, R1Lo, 0, 0, 184>> }
                                      \* jz L1 ?rtrue; call R1 0 -> sp; ret_popped

\* push 5; call R1 7 -> sp, L1 or G0; print_num sp
CallStories ==
    { Story(Catalogue[5] \o <<224, 31, R1Hi, R1Lo, 7, var>> \o Catalogue[11], body) :
          var \in {0, 1, 16}, body \in CallBodies }

\* values and thresholds of dec_chk and inc_chk: both signs and the edges
ChkValues == {0, 1, 2, 32767, 32768, 65534, 65535}

\* push v; dec_chk sp t or inc_chk sp t, with a branch on true or on false
ChkStories ==
    { Story(<<232, 63>> \o WordBytes(v) \o <<ins, 79, 0>> \o WordBytes(t) \o <<tail>>,
            RoutineBodies[1]) :
          v \in ChkValues, t \in ChkValues, ins \in {196, 197}, tail \in {197, 69} }

\* how many objects the trees of the stories have
NumObjects == 5

\* the parent, sibling and child of object n
Links(n, p, s, c) == Place(ObjAddr(n) + object_parent, <<p, s, c>>)

\* 1 has the children 2, 3, 4 in this order; 5 has no parent
Tree1 ==
    Links(1, 0, 0, 2) @@ Links(2, 1, 3, 0) @@ Links(3, 1, 4, 0) @@ Links(4, 1, 0, 0)
    @@ Links(5, 0, 0, 0)

\* 1 has the children 2, 3; 3 has the child 4; 4 has the child 5
Tree2 ==
    Links(1, 0, 0, 2) @@ Links(2, 1, 3, 0) @@ Links(3, 1, 0, 4) @@ Links(4, 3, 0, 5)
    @@ Links(5, 4, 0, 0)

\* 3 and 5 name 1 as their parent, and the chain of 1 is 2 alone
Tree3 ==
    Links(1, 0, 0, 2) @@ Links(2, 1, 0, 0) @@ Links(3, 1, 0, 0) @@ Links(4, 0, 0, 0)
    @@ Links(5, 1, 4, 0)

\* 3 names 1 as its parent, and the chain of 1 is the cycle 2, 4, 2, ...
Tree4 ==
    Links(1, 0, 0, 2) @@ Links(2, 1, 4, 0) @@ Links(3, 1, 0, 0) @@ Links(4, 1, 2, 0)
    @@ Links(5, 0, 0, 0)

\* 1 has the children 3, 4 in its chain, and 4 is the child of 2, which it
\* names as its parent
Tree5 ==
    Links(1, 0, 0, 3) @@ Links(2, 0, 0, 4) @@ Links(3, 1, 4, 0) @@ Links(4, 2, 0, 0)
    @@ Links(5, 0, 0, 0)

\* insert_obj a b; insert_obj c d, the objects of each instruction distinct
InsertPairs == {p \in (1..NumObjects) \X (1..NumObjects) : p[1] # p[2]}

SequenceStories ==
    { tree @@ Story(<<14, p[1], p[2]>> \o <<14, q[1], q[2]>>, RoutineBodies[1]) :
          tree \in {Tree1, Tree2, Tree5}, p \in InsertPairs, q \in InsertPairs }

\* insert_obj a b, for all objects of all trees
TreeStories ==
    { tree @@ Story(<<14, a, b>>, RoutineBodies[1]) :
          tree \in {Tree1, Tree2, Tree3, Tree4}, a \in 1..NumObjects, b \in 1..NumObjects }

\* where the property table of object 3 is, and the first property in it
PropTable == 24 * 16
FirstProp == PropTable + 3

\* the table: the name "go"; property 20 of 2 bytes, property 10 of 1 byte,
\* property 5 of 4 bytes; the end of the list; a byte that is not of the list
PropImage ==
    Place(ObjAddr(3) + property_offset, WordBytes(PropTable))
    @@ Place(PropTable, <<1, 178, 133,  52, 170, 187,  10, 85,  101, 1, 2, 3, 4,  0, 119>>)

\* where the data of the properties p of the table are
PropData(p) == FirstProp + (IF p = 20 THEN 1 ELSE IF p = 10 THEN 4 ELSE 6)

PropNumbers == {0, 5, 7, 10, 20, 25, 31, 32}
PropValues == {0, 255, 4660, 65535}

\* put_prop 3 p v; get_prop 3 p -> sp, and get_prop alone
PropStories ==
    { PropImage @@ Story(<<227, 83, 3, p>> \o WordBytes(v) \o <<17, 3, p, 0>>,
                         RoutineBodies[1]) : p \in PropNumbers, v \in PropValues }
    \cup { PropImage @@ Story(<<17, 3, p, 0>>, RoutineBodies[1]) : p \in PropNumbers }

\* where the strings of the abbreviations are
AbbrevStrings == AbbrevAddr + 64

\* abbreviation 0 is "go"; abbreviation 1 is a reference to abbreviation 0
\* and "a"; abbreviation 2 is a reference to itself and "a"
AbbrevImage ==
    Place(AbbrevAddr, WordBytes(AbbrevStrings \div 2)
                      \o WordBytes(AbbrevStrings \div 2 + 2)
                      \o WordBytes(AbbrevStrings \div 2 + 4))
    @@ Place(AbbrevStrings, <<178, 133, 0, 0,  132, 6, 0, 0,  132, 70>>)

\* print with a string of the three codes: abbreviation x, then "b"
AbbrevStories ==
    { AbbrevImage @@ Story(<<178>> \o WordBytes(32768 + 1024 + 32 * x + 7), RoutineBodies[1]) :
          x \in 0..3 }

\* print with a ZSCII escape for "a" (codes 6, 3, 1 after the shift 5):
\* "xy", shift | escape, "a";  "x", shift, escape | "a", "b";
\* shift, escape, hi | lo, "b". The codes 3, 1 and 1, 7 at the start of a
\* word are references to abbreviations, which are "go"
ZsciiStories ==
    { Place(AbbrevAddr + 14, WordBytes(AbbrevStrings \div 2))
      @@ Place(AbbrevAddr + 130, WordBytes(AbbrevStrings \div 2))
      @@ AbbrevImage @@ Story(<<178>> \o text, RoutineBodies[1]) :
          text \in { <<119, 197, 152, 97>>, <<116, 166, 140, 39>>, <<20, 195, 132, 229>> } }

\* the words of the dictionary, in the order of their keys
DictWords == <<"go", "lamp", "take">>

\* a dictionary entry: the two words of the key and three bytes of data
DictEntry(w) ==
    WordBytes(encode_string(Len(w), w).buffer[1])
    \o WordBytes(encode_string(Len(w), w).buffer[2]) \o <<0, 0, 0>>

\* no separator, entries of 7 bytes, the number of entries, the entries
DictImage ==
    Place(DictAddr, <<0, 7, 0, Len(DictWords)>>)
    @@ Place(DictAddr + 4, DictEntry(DictWords[1]))
    @@ Place(DictAddr + 11, DictEntry(DictWords[2]))
    @@ Place(DictAddr + 18, DictEntry(DictWords[3]))

TextBuffer == 9 * 16
ParseBuffer == 12 * 16

\* sread with a text buffer of 20 characters and a parse buffer of
\* max_tokens tokens; G0 is 0, so no status line is printed
SreadStory(main, max_tokens) ==
    Place(GlobalsAddr, <<0, 0>>) @@ DictImage
    @@ Place(TextBuffer, <<20>>) @@ Place(ParseBuffer, <<max_tokens>>)
    @@ Story(main, RoutineBodies[1])

\* object 3 gets a property table that holds its short name, "go"
NamedObject ==
    Place(ObjAddr(3) + property_offset, <<1, 128>>) @@ Place(384, <<1, 178, 133>>)

\* three words with the same first three letters, so that their keys have
\* the same first word, in the order of their keys
SharedWords == <<"lam", "lamp", "lamps">>

SharedDictImage ==
    Place(DictAddr + 4, DictEntry(SharedWords[1]))
    @@ Place(DictAddr + 11, DictEntry(SharedWords[2]))
    @@ Place(DictAddr + 18, DictEntry(SharedWords[3]))

\* the dictionary of DictWords with one separator, the comma
SeparatorDictImage ==
    Place(DictAddr, <<1, 44, 7, 0, Len(DictWords)>>)
    @@ Place(DictAddr + 5, DictEntry(DictWords[1]))
    @@ Place(DictAddr + 12, DictEntry(DictWords[2]))
    @@ Place(DictAddr + 19, DictEntry(DictWords[3]))

DictStories ==
    { image @@ SreadStory(<<228, 95, TextBuffer, ParseBuffer>>, 4) :
          image \in {SharedDictImage, SeparatorDictImage} }

\* the instructions whose first operand names a variable, with that operand
\* as a small constant (typ = 1) or as a variable (typ = 2) and the byte n:
\* inc, dec, load -> G1, dec_chk n 3 ?+5, inc_chk n 3 ?+5, store n 9, pull
ByNumber(typ, n) ==
    { <<128 + 16 * typ + 5, n>>, <<128 + 16 * typ + 6, n>>, <<128 + 16 * typ + 14, n, 17>>,
      <<64 * (typ - 1) + 4, n, 3, 197>>, <<64 * (typ - 1) + 5, n, 3, 197>>,
      <<64 * (typ - 1) + 13, n, 9>>, <<233, 64 * typ + 63, n>> }

\* push 2; push z; then one of these instructions on sp or on G0 (which holds 5)
RefStories ==
    { Story(<<232, 127, 2, 232, 127, z>> \o ins, RoutineBodies[1]) :
          z \in {0, 1}, ins \in UNION { ByNumber(typ, n) : typ \in {1, 2}, n \in {0, 16} } }

\* push 2; push 1; then an opcode of version 3 that the table of the
\* processor may lack: nop, save, restore, restart, pop, show_status, verify,
\* remove_obj 3
ListStories ==
    { Story(<<232, 127, 2, 232, 127, 1>> \o ins, RoutineBodies[1]) :
          ins \in { <<180>>, <<181>>, <<182>>, <<183>>, <<185>>, <<188>>, <<189>>,
                    <<153, 3>> } }

\* variable-form bytes of the VAR opcodes 16 and 26, with no operand
ClashStories ==
    { Story(<<224 + n, 255>>, RoutineBodies[1]) : n \in {16, 26} }

\* call R1 -> sp and call R1 7 -> G0 on a routine with one local whose
\* default word is w; the routine returns the local, pushes it, or
\* increments it and returns it
DefaultStories ==
    { Place(R1Addr, <<1>> \o WordBytes(w)) @@ Story(main, body) :
          w \in {32767, 32768, 65535},
          main \in {Catalogue[7], Catalogue[8]},
          body \in { <<171, 1>>, <<232, 191, 1, 176>>, <<149, 1, 171, 1>> } }

\* a story that moves the static-memory base of its header down to the
\* globals and then changes a global: storew 0 7 0x0040; dec G0
HeaderStories ==
    { Story(<<225, 19, 0, 0, 7, 0, 64>> \o <<150, 16>>, RoutineBodies[1]) }

SreadStories ==
    { SreadStory(<<228, 95, TextBuffer, ParseBuffer>>, n) : n \in {1, 4} }
    \cup { SreadStory(<<228, 95, TextBuffer, 0>>, 4),                 \* no parse buffer
           Place(GlobalsAddr, <<0, 0>>) @@ Place(TextBuffer, <<20>>)  \* no dictionary
               @@ Story(<<228, 95, TextBuffer, ParseBuffer>>, RoutineBodies[1]),
           Place(GlobalsAddr, <<0, 3>>) @@ NamedObject                \* a status line
               @@ SreadStory(<<228, 95, TextBuffer, ParseBuffer>>, 4),
           NamedObject @@ Story(<<154, 3>>, RoutineBodies[1]),        \* print_obj 3
           Story(<<154, 0>>, RoutineBodies[1]) }

Stories ==
    { Story(Catalogue[i] \o Catalogue[j], RoutineBodies[1]) :
          i \in 1..Len(Catalogue), j \in SecondSlot }
    \cup { Story(Catalogue[i] \o Catalogue[j], RoutineBodies[b]) :
          i \in {7, 8}, j \in SecondSlot, b \in 1..Len(RoutineBodies) }
    \cup { Story(<<224, 63, R2Hi, R2Lo, 0>>, RoutineBodies[1]),   \* call R2 -> sp
           Story(<<140, 255, 255>>, RoutineBodies[1]) }          \* jump -1
    \cup ArithStories
    \cup PushPullStories
    \cup AttrStories
    \cup KeyStories
    \cup RandomStories \cup JumpStories
    \cup BranchStories
    \cup SreadStories \cup DictStories \cup RefStories
    \cup ListStories \cup ClashStories \cup DefaultStories
    \cup CallStories \cup HeaderStories \cup SequenceStories
    \cup ChkStories
    \cup TreeStories
    \cup PropStories
    \cup AbbrevStories
    \cup ZsciiStories

InitVM ==
    /\ memory \in Stories
    /\ pc = WordAt(memory, 6)
    /\ call_stack = <<>>
    /\ game_running = TRUE
    /\ output = <<>>
    /\ instruction_count = 0
    /\ opcode = 0 - 1
    /\ operands = <<>>
    /\ opcode_byte = 0 - 1
    /\ fetch_pc = WordAt(memory, 6)
    /\ ctl = "start"
    /\ save_file = NoFile
    /\ saved = [pc |-> pc, memory |-> memory, call_stack |-> call_stack]
    /\ host_last = [op |-> "none", own |-> FALSE, magic |-> "", version |-> 0,
                    ok |-> FALSE]
    /\ story_file = memory

\* the program as it is: nothing calls save_game or restore_game
Init == InitVM /\ host_budget = 0

Next ==
    \/ init_frame
    \/ FetchError \/ InstructionLimit \/ Unimplemented
    \/ rtrue \/ rfalse \/ print \/ ret_popped \/ catch \/ quit \/ new_line
    \/ jz \/ inc \/ dec \/ ret \/ jump \/ load \/ not
    \/ je \/ jl \/ jg \/ dec_chk \/ inc_chk \/ insert_obj \/ get_prop \/ put_prop
    \/ test \/ test_attr \/ set_attr \/ clear_attr \/ store
    \/ loadw \/ loadb \/ add \/ sub \/ mul \/ div \/ mod
    \/ call \/ storew \/ storeb \/ sread \/ print_obj \/ print_num \/ random \/ push \/ pull
    \/ LoopExit \/ KeyboardInterrupt

Spec == Init /\ [][Next]_vars

\* the stories during which the host calls save_game and restore_game
SaveStories ==
    { Story(Catalogue[i] \o Catalogue[j], RoutineBodies[1]) :
          i \in {5, 7, 18}, j \in SecondSlot }

\* how many calls of save_game and restore_game the host makes in a run
MaxHostOps == 2

InitSave ==
    /\ InitVM
    /\ host_budget = IF memory \in SaveStories THEN MaxHostOps ELSE 0

NextSave == Next \/ save_game \/ restore_game

SpecSave == InitSave /\ [][NextSave]_vars

\* the stories during which the host calls restart_game: the main routine
\* has pushed a value, is inside a call, or has written to dynamic memory
RestartStories ==
    { Story(Catalogue[i] \o Catalogue[j], RoutineBodies[1]) :
          i \in {5, 7, 18, 40}, j \in SecondSlot }
    \cup HeaderStories

InitRestart ==
    /\ InitVM
    /\ host_budget = IF memory \in RestartStories THEN MaxHostOps ELSE 0

NextRestart == Next \/ restart_game

SpecRestart == InitRestart /\ [][NextRestart]_vars

(***************************************************************************)
(* Properties                                                              *)
(***************************************************************************)
static_base == WordAt(memory, 14)

\* the step executes an instruction dispatched with key k
Executes(k) ==
    /\ ctl = "loop"
    /\ instruction_count' = instruction_count + 1 /\ instruction_count' <= maxcount
    /\ opcode' = k

\* C1: once the initial frame exists, the call stack holds at least one frame
\* in every state in which game_running is true, whatever returns (ret, rtrue,
\* rfalse, ret_popped, a taken branch with offset 0 or 1) were executed.
C1_FrameStackNonEmpty ==
    (ctl # "start" /\ game_running) => Len(call_stack) >= 1

\* a routine called from the main routine returned through a taken branch with
\* offset 0 and the game goes on in the main frame, which received the result
C1_Witness ==
    /\ ctl = "loop" /\ game_running
    /\ opcode = 128
    /\ Len(call_stack) = 1
    /\ call_stack[1].data_stack = <<0>>
    /\ instruction_count = 2

\* C2: PC is less than the memory size in every reachable state, also right
\* after a jump, a taken branch and a call to any packed address.
C2_PCBelowMemorySize == pc < MemLen

\* C3: no executed opcode changes a memory byte at an address greater than
\* or equal to the static-memory base, the word at 0x0E.
C3_NoWriteAtOrAboveStaticBase ==
    [][\A a \in DOMAIN memory' :
          a >= static_base => Cell(memory', a) = Cell(memory, a)]_vars

\* C4: an attempted write at or above static_base, or beyond the end of
\* memory, is fatal: after a storeb whose address operand0 + operand1 is at
\* or above static_base the VM has game_running = false.
C4_WriteAboveStaticBaseIsFatal ==
    (opcode = 34 /\ opcode_byte = 226 /\ Len(operands) >= 3
       /\ operands[1] + operands[2] >= static_base)
    => ~game_running

\* C5: read_byte never faults and returns 0 for every address that is not a
\* valid index of memory, also for a PC-derived address after a backward
\* jump: the opcode byte fetched at a PC outside 0..size-1 is 0 (the model
\* records no byte, -1, when the read raised).
C5_ReadOutsideMemoryIsZero ==
    (fetch_pc < 0 \/ fetch_pc >= MemLen) => opcode_byte = 0

\* the run was ended by sys.exit() on a fatal error of the instruction last
\* dispatched: no handler, op_catch, storew outside the data area, call at
\* the stack limit
FatalErrorExit ==
    \/ opcode \notin opcodes
    \/ opcode = 57
    \/ /\ output # <<>>
       /\ output[Len(output)] \in
              {"*** ERROR: Attempted to write outside of data area",
               "*** ERROR: stack is out of memory"}

\* C6: the run loop keeps executing until quit or a fatal error: the
\* interpreter itself never ends a run of valid, error-free instructions.
C6_StopsOnlyOnQuitOrFatal == ctl = "exit" => FatalErrorExit

\* C7: quit sets game_running = false, nothing is fetched afterwards and the
\* halt emits nothing to the Screen: when quit was the only instruction
\* executed, game_running is false and the output is empty.
C7_QuitHaltsSilently ==
    (opcode = 58 /\ instruction_count = 1) => (~game_running /\ output = <<>>)

\* C8: when the decoded opcode has no handler the VM ends halted with
\* game_running = false.
C8_UnknownOpcodeClearsGameRunning ==
    (opcode # 0 - 1 /\ opcode \notin opcodes) => ~game_running

\* the step pops the empty evaluation stack of the current frame: ret_popped
\* or pull is executed on it, or an operand read of variable 0 reported it
PopsEmptyStack ==
    \/ /\ (Executes(56) \/ Executes(41))
       /\ Len(call_stack) >= 1
       /\ call_stack[Len(call_stack)].data_stack = <<>>
    \/ \E i \in (Len(output) + 1)..Len(output') :
          output'[i] = "*** ERROR: data stack is empty in read_variable()"

\* C9: every attempt to pop an empty evaluation stack (operand read of
\* variable 0, pull, ret_popped) halts the VM with game_running = false.
C9_EmptyPopIsFatal == [][PopsEmptyStack => ~game_running']_vars

\* the step executes a call to a non-zero routine with the stack at its limit
CallAtLimit ==
    /\ Executes(32)
    /\ Len(operands') >= 1 /\ operands'[1] # 0
    /\ Len(call_stack) >= STACK_SIZE

\* C10: the call-stack depth never exceeds STACK_SIZE = 1024 frames; a call
\* attempted at the limit pushes no frame and stops the VM.
C10_DepthBounded ==
    [][/\ Len(call_stack') <= STACK_SIZE
       /\ CallAtLimit => (Len(call_stack') = Len(call_stack) /\ ctl' = "exit")]_vars

\* the call at depth 1024 was refused and the run ended
C10_Witness ==
    /\ ctl = "exit" /\ opcode = 32
    /\ Len(call_stack) = STACK_SIZE
    /\ output = <<"*** ERROR: stack is out of memory">>

\* the value of variable v in a frame stack cs and a memory mem
VarValue(cs, mem, v) ==
    LET f == cs[Len(cs)] IN
    IF v = 0 THEN f.data_stack[Len(f.data_stack)]
    ELSE IF v <= 15 THEN f.local_vars[v]
    ELSE WordAt(mem, variables_addr + (v - 16) * 2)

\* the step stores x in the variable named by the store byte, which follows
\* the operands
Stores(x) == VarValue(call_stack', memory', ByteAt(memory, Decoded.s.pc)) = x

\* ... and goes on at the instruction after the store byte
StoresAndContinues(x) ==
    /\ Stores(x)
    /\ pc' = Decoded.s.pc + 1
    /\ game_running' /\ ctl' = "loop"

\* the step executes the 2OP instruction k on two 16-bit operands, read
\* without error
Executes2OP(k) ==
    /\ Executes(k)
    /\ Len(operands') = 2
    /\ operands'[1] \in 0..65535 /\ operands'[2] \in 0..65535
    /\ Decoded.s.game_running

\* C11: div with divisor 0 stores 0x7FFF and mod with divisor 0 stores 0 in
\* the result variable; both are non-fatal: game_running stays true and
\* execution continues at the instruction after the store byte.
C11_DivModByZero ==
    [][/\ (Executes2OP(23) /\ operands'[2] = 0) => StoresAndContinues(32767)
       /\ (Executes2OP(24) /\ operands'[2] = 0) => StoresAndContinues(0)]_vars

\* div 7 0 -> sp, then mod 7 0 -> sp were executed and the game runs on
C11_Witness ==
    /\ opcode = 24 /\ operands = <<7, 0>>
    /\ game_running /\ ctl = "loop"
    /\ Len(call_stack) = 1
    /\ call_stack[1].data_stack = <<32767, 0>>

Abs(x) == IF x < 0 THEN 0 - x ELSE x

\* the quotient of the signed division truncating toward zero: the remainder
\* is smaller than the divisor and has the sign of the dividend
TruncQuotient(a, b) ==
    CHOOSE q \in (0 - 32768)..32768 :
        LET r == a - q * b
        IN  Abs(r) < Abs(b) /\ (r = 0 \/ (r < 0) = (a < 0))

TruncRemainder(a, b) == a - TruncQuotient(a, b) * b

\* C12: add, sub, mul and div (divisor not 0) store the signed
\* two's-complement result reduced modulo 2^16, div truncating toward zero.
C12_SignedArithmetic ==
    [][\A k \in 20..23 :
          (Executes2OP(k) /\ (k = 23 => operands'[2] # 0)) =>
              LET a == Signed16(operands'[1])
                  b == Signed16(operands'[2])
                  r == CASE k = 20 -> a + b
                         [] k = 21 -> a - b
                         [] k = 22 -> a * b
                         [] k = 23 -> TruncQuotient(a, b)
              IN  Stores(r % 65536)]_vars

\* div of -32768 by -1 stored 0x8000
C12_Witness ==
    /\ opcode = 23 /\ operands = <<32768, 65535>>
    /\ game_running
    /\ Len(call_stack) = 1
    /\ call_stack[1].data_stack = <<32768>>

\* C13: mod reads both operands as signed 16-bit values: for a divisor not 0
\* the stored result is the remainder of the truncating signed division,
\* with the sign of the dividend, reduced modulo 2^16.
C13_SignedRemainder ==
    [][(Executes2OP(24) /\ operands'[2] # 0) =>
          Stores(TruncRemainder(Signed16(operands'[1]), Signed16(operands'[2])) % 65536)]_vars

\* the evaluation stack of the current frame
EvalStack == call_stack[Len(call_stack)].data_stack

\* the step executes push x with a constant operand
PushStep ==
    /\ Executes(40) /\ Len(operands') = 1
    /\ Decoded.s.call_stack = call_stack

\* the step executes pull v, v in 1..255 given as a constant operand, right
\* after push x
PullAfterPushStep ==
    /\ Executes(41) /\ Len(operands') = 1 /\ operands'[1] \in 1..255
    /\ Decoded.s.call_stack = call_stack
    /\ opcode = 40 /\ Len(operands) = 1 /\ operands[1] \in 0..65535
    /\ EvalStack # <<>> /\ EvalStack[Len(EvalStack)] = operands[1]

\* C14: push x followed by pull v, v in 1..255, leaves read(v) = x and the
\* evaluation stack of the current frame as it was before the push: push
\* appends x, and the pull that follows stores x in v and removes what the
\* push appended.
C14_PushPull ==
    [][/\ PushStep => EvalStack' = Append(EvalStack, operands'[1])
       /\ PullAfterPushStep =>
             /\ VarValue(call_stack', memory', operands'[1]) = operands[1]
             /\ EvalStack' = SubSeq(EvalStack, 1, Len(EvalStack) - 1)
             /\ game_running']_vars

\* push 5; push 0xFFFF; pull G239 were executed
C14_Witness ==
    /\ opcode = 41 /\ operands = <<255>>
    /\ game_running
    /\ WordAt(memory, variables_addr + 239 * 2) = 65535
    /\ Len(call_stack) = 1
    /\ call_stack[1].data_stack = <<5>>

\* the step executes test_attr o b, o in 1..255 and b in 0..31, right after
\* instruction k was executed on the same o and b; the branch byte of the
\* test_attr asks to branch on true, in one byte, with an offset above 2
TestAttrAfter(k) ==
    /\ Executes(10) /\ opcode = k
    /\ Len(operands) = 2 /\ operands' = operands
    /\ operands[1] \in 1..255 /\ operands[2] \in 0..31
    /\ ByteAt(memory, Decoded.s.pc) \in 195..255

\* C15: after set_attr(o,b), test_attr(o,b) takes its branch as true; after
\* clear_attr(o,b), test_attr(o,b) is false and execution falls through.
C15_AttrSetClearTest ==
    [][/\ TestAttrAfter(11) =>
             pc' = Decoded.s.pc + 1 + (ByteAt(memory, Decoded.s.pc) % 64) - 2
       /\ TestAttrAfter(12) => pc' = Decoded.s.pc + 1]_vars

\* set_attr 255 31 set the lowest bit of the last attribute byte of object
\* 255 and test_attr 255 31 branched over the quit
C15_Witness ==
    /\ opcode = 10 /\ operands = <<255, 31>>
    /\ game_running
    /\ pc = InitialPC + 10
    /\ Bit(Cell(memory, get_object_address(255) + 3), 0) = 1

\* the step is a call of restore_game
RestoreStep == host_budget' = host_budget - 1 /\ host_last'.op = "restore"

\* C16: restoring a save restores the PC, every dynamic-memory byte below
\* static_base and the whole frame stack to their values at the time of the
\* save, whatever was executed in between.
C16_SaveRestoreRoundTrip ==
    [][(RestoreStep /\ host_last'.own /\ save_file.exists) =>
          /\ pc' = saved.pc
          /\ \A a \in 0..(WordAt(saved.memory, 14) - 1) :
                 Cell(memory', a) = Cell(saved.memory, a)
          /\ call_stack' = saved.call_stack]_vars

\* C17: restoring from a file whose magic is not "ZSAV" or whose version
\* byte differs from the story's version returns failure and leaves PC,
\* memory and the call stack untouched.
C17_RestoreRejectsMismatch ==
    [][(RestoreStep /\ (host_last'.magic # "ZSAV" \/ host_last'.version # z_version)) =>
          /\ ~host_last'.ok
          /\ pc' = pc /\ memory' = memory /\ call_stack' = call_stack]_vars

\* a file of version 5 was refused after two instructions, with the main
\* frame still in place
C17_Witness ==
    /\ host_last.op = "restore" /\ host_last.magic = "ZSAV" /\ host_last.version = 5
    /\ ~host_last.ok
    /\ instruction_count = 2 /\ Len(call_stack) = 1
    /\ output # <<>> /\ output[Len(output)] = "*** ERROR: Restore failed"

\* the dictionary key of token tk lies at addr
KeyAt(tk, addr) ==
    LET k == encode_string(Len(tk), tk)
    IN  k.ok /\ WordAt(memory, addr) = k.buffer[1] /\ WordAt(memory, addr + 2) = k.buffer[2]

\* the step decodes and prints the dictionary key of tk
PrintsKey(tk) == Executes(50) /\ KeyAt(tk, pc + 1)

\* the text the step hands to the Screen
Printed == IF Len(output') > Len(output) THEN output'[Len(output')] ELSE ""

\* how many codes the characters of tk take: one for a character of table 0,
\* a shift and one for a character of table 1 or 2
RECURSIVE CodeCount(_)
CodeCount(tk) ==
    IF tk = "" THEN 0
    ELSE (IF Lookup(CharAt(tk, 1))[1] = 0 THEN 1 ELSE 2) + CodeCount(SubSeq(tk, 2, Len(tk)))

RECURSIVE HasNewline(_)
HasNewline(tk) ==
    tk # "" /\ (CharAt(tk, 1) = "\n" \/ HasNewline(SubSeq(tk, 2, Len(tk))))

RandomStep(r) == Executes(39) /\ operands' = <<r>>

\* the value the step stores is in the set S
StoresIn(S) == VarValue(call_stack', memory', ByteAt(memory, Decoded.s.pc)) \in S

\* C19: random r keeps the VM running in every case; it stores 0 for r = 0
\* and for r negative as a signed 16-bit number (0x8000..0xFFFF), 1 for
\* r = 1 and a value in 1..r for r > 0.
C19_Random ==
    [][\A r \in 0..65535 :
          RandomStep(r) =>
              /\ game_running'
              /\ StoresIn(IF r = 0 \/ r >= 32768 THEN {0} ELSE 1..r)]_vars

\* the step executes jump with one 16-bit operand
JumpStep == Executes(140) /\ Len(operands') = 1 /\ operands'[1] \in 0..65535

\* the operand of the fetched jump is a large constant: bits 5 and 4 of the
\* opcode byte are 00
LargeOperand == (opcode_byte' \div 16) % 4 = 0

\* C20 as stated: jump sets PC to the address after the operand plus the
\* signed offset minus 2, and for offset 0 the PC returns to the opcode byte
\* of the jump itself, for every operand encoding.
C20_JumpZeroReexecutes ==
    [][JumpStep =>
          /\ pc' = Decoded.s.pc + Signed16(operands'[1]) - 2
          /\ Signed16(operands'[1]) = 0 => pc' = pc]_vars

\* C20, amended: jump sets PC to the address after the operand plus the
\* signed offset minus 2; for offset 0 that is the opcode byte of the jump
\* when the operand takes one byte (small constant or variable), and the
\* byte after the opcode byte when the operand is a large constant.
C20_JumpTarget ==
    [][JumpStep =>
          /\ pc' = Decoded.s.pc + Signed16(operands'[1]) - 2
          /\ Signed16(operands'[1]) = 0 =>
                 pc' = pc + (IF LargeOperand THEN 1 ELSE 0)]_vars

\* jump 0 with a small constant was executed twice at the initial PC
C20_Witness ==
    /\ opcode = 140 /\ opcode_byte = 156 /\ operands = <<0>>
    /\ pc = InitialPC /\ fetch_pc = InitialPC
    /\ instruction_count = 2 /\ game_running

\* the branch instructions whose predicate is a function of the operands
BranchKeys == {1, 2, 3, 7, 128}

\* the predicate of the branch instruction with key k and operands ops
Predicate(k, ops) ==
    CASE k = 128 -> ops[1] = 0
      [] k = 1 -> \E i \in 2..Len(ops) : ops[1] = ops[i]
      [] k = 2 -> Signed16(ops[1]) < Signed16(ops[2])
      [] k = 3 -> Signed16(ops[1]) > Signed16(ops[2])
      [] k = 7 -> \A b \in 0..15 : Bit(ops[2], b) = 1 => Bit(ops[1], b) = 1

\* the step executes the branch instruction with key k
BranchStep(k) ==
    /\ Executes(k)
    /\ Len(operands') >= (IF k = 128 THEN 1 ELSE 2)
    /\ \A i \in 1..Len(operands') : operands'[i] \in 0..65535

\* what a branch does, with the predicate P, the branch bytes at the address
\* after and the frames cs the instruction found
BranchesAt(P, after, cs) ==
    LET b0 == ByteAt(memory, after)
        b1 == ByteAt(memory, after + 1)
        short == (b0 \div 64) % 2 = 1
        raw == (b0 % 64) * 256 + b1
        offset == IF short THEN b0 % 64
                  ELSE IF raw >= 8192 THEN raw - 16384 ELSE raw
        next == after + (IF short THEN 1 ELSE 2)
        taken == P <=> (b0 >= 128)
        frame == cs[Len(cs)]
    IN  /\ ~taken => pc' = next /\ call_stack' = cs
        /\ taken /\ offset \notin {0, 1} => pc' = next + offset - 2 /\ call_stack' = cs
        /\ taken /\ offset \in {0, 1} /\ Len(cs) >= 2 =>
              /\ Len(call_stack') = Len(cs) - 1
              /\ pc' = frame.return_pointer + 1
              /\ VarValue(call_stack', memory', ByteAt(memory, frame.return_pointer)) = offset

\* C21: a branch is taken iff the predicate equals bit 7 of the first branch
\* byte; the offset is the low 6 bits when bit 6 is set, else the
\* sign-extended 14-bit value of both bytes; a taken branch with offset 0 or 1
\* returns that value from the routine, any other offset sets PC to the
\* address after the branch bytes + offset - 2; a branch not taken leaves PC
\* after the branch bytes.
C21_Branch ==
    [][\A k \in BranchKeys :
          BranchStep(k) =>
              BranchesAt(Predicate(k, operands'), Decoded.s.pc, Decoded.s.call_stack)]_vars

\* jz 0 with the branch bytes BF FF (offset -1) was taken in the main routine
C21_Witness ==
    /\ opcode = 128 /\ operands = <<0>> /\ instruction_count = 1
    /\ ByteAt(memory, InitialPC + 2) = 191 /\ ByteAt(memory, InitialPC + 3) = 255
    /\ pc = InitialPC + 4 - 1 - 2

(***************************************************************************)
(* C22: sread fills the parse buffer with one entry per word               *)
(***************************************************************************)
\* the step that executes sread and ends without a fatal error
SreadStep ==
    /\ ctl = "loop" /\ ~IndexError(pc)
    /\ KeyOfByte(ByteAt(memory, pc)) = 36
    /\ opcode' = 36 /\ ctl' = "loop" /\ game_running'

\* the address of the dictionary entry of a word, 0 when it has none
DictAddress(token) ==
    IF \E k \in 1..Len(DictWords) : CodesOf(DictWords[k]) = token
    THEN DictAddr + 4 + 7 * ((CHOOSE k \in 1..Len(DictWords) : CodesOf(DictWords[k]) = token) - 1)
    ELSE 0

\* the offset in the text of the i-th of words that single spaces separate
RECURSIVE WordStart(_, _)
WordStart(words, i) ==
    IF i = 1 THEN 0 ELSE WordStart(words, i - 1) + Len(words[i - 1]) + 1

\* the parse buffer at parse describes the words of the text at text
ParsedAs(m, text, parse, words) ==
    /\ ByteAt(m, parse + 1) = Len(words)
    /\ \A i \in 1..Len(words) :
        /\ ByteAt(m, parse + 2 + 4 * (i - 1)) * 256
           + ByteAt(m, parse + 3 + 4 * (i - 1)) = DictAddress(words[i])
        /\ ByteAt(m, parse + 4 + 4 * (i - 1)) = Len(words[i])
        /\ ByteAt(m, parse + 5 + 4 * (i - 1)) = WordStart(words, i)

\* C22: after sread has read a line of words separated by single spaces (no
\* more words than the parse buffer takes), the count of the parse buffer is
\* the number of words and its i-th entry holds the dictionary address of the
\* i-th word (0 when the dictionary lacks it), its length and the offset in
\* the text of that very occurrence, also when a word occurs twice
C22_SreadParse ==
    [][SreadStep =>
         \A d \in {Decoded} :
             (Len(d.operands) >= 2 /\ d.operands[2] # 0) =>
                 \A words \in {Split([i \in 1..StrLen(memory', d.operands[1], 0) |->
                                          ByteAt(memory', d.operands[1] + i - 1)],
                                     {32}, <<>>)} :
                     (/\ \A i \in 1..Len(words) : words[i] # <<>>
                      /\ Len(words) <= ByteAt(memory, d.operands[2]))
                     => ParsedAs(memory', d.operands[1], d.operands[2], words)]_vars

\* the same for the lines in which no word occurs inside an earlier part of
\* the line
C22_SreadParseDistinct ==
    [][SreadStep =>
         \A d \in {Decoded} :
             (Len(d.operands) >= 2 /\ d.operands[2] # 0) =>
                 \A buff \in {[i \in 1..StrLen(memory', d.operands[1], 0) |->
                                  ByteAt(memory', d.operands[1] + i - 1)]} :
                 \A words \in {Split(buff, {32}, <<>>)} :
                     (/\ \A i \in 1..Len(words) :
                            words[i] # <<>> /\ Find(buff, words[i]) = WordStart(words, i)
                      /\ Len(words) <= ByteAt(memory, d.operands[2]))
                     => ParsedAs(memory', d.operands[1], d.operands[2], words)]_vars

\* sread has parsed the line "take lamp"
C22_Witness ==
    /\ opcode = 36 /\ ctl = "loop" /\ game_running
    /\ ByteAt(memory, ParseBuffer + 1) = 2
    /\ [i \in 1..9 |-> ByteAt(memory, TextBuffer + i - 1)] = CodesOf("take lamp")
    /\ ByteAt(memory, ParseBuffer + 9) = 5

(***************************************************************************)
(* C23, C24: a call and its return                                         *)
(***************************************************************************)
\* the step executes call on a routine address that is not 0 and the game
\* goes on
CallStep ==
    /\ Executes(32) /\ Len(operands') >= 1 /\ operands'[1] # 0
    /\ ctl' = "loop" /\ game_running'

\* the step returns from a called routine to its caller and the game goes on
ReturnStep ==
    /\ ctl = "loop" /\ instruction_count' = instruction_count + 1
    /\ Len(call_stack') = Len(call_stack) - 1 /\ Len(call_stack') >= 1
    /\ ctl' = "loop" /\ game_running'

\* the values the returning instruction can return: 1, 0, the operand of
\* ret, the top of the routine's stack (0 when it is empty), 0 or 1 for a
\* taken branch
ReturnValues(found) ==
    IF opcode' = 48 THEN {1}
    ELSE IF opcode' = 49 THEN {0}
    ELSE IF opcode' = 139 THEN {operands'[1] % 65536}
    ELSE IF opcode' = 56
    THEN {IF found.data_stack = <<>> THEN 0 ELSE found.data_stack[Len(found.data_stack)]}
    ELSE {0, 1}

\* the frames under the running one are not touched: frames 1..n stay
FramesKept(n) == \A i \in 1..n : call_stack'[i] = call_stack[i]

\* C23: a call to a routine address that is not 0 pushes one frame that
\* returns to the store byte of the call and leaves the caller's locals as
\* they are; no step changes a frame under the running one; the return pops
\* that frame, so the depth is the one before the call, sets PC to the byte
\* after the store byte of the call, writes the returned value to the store
\* variable and leaves the caller's locals (but a local that is the store
\* variable) as they were.
C23_CallReturn ==
    [][/\ ctl = "loop" /\ ctl' = "loop" =>
              FramesKept(IF Len(call_stack') >= Len(call_stack)
                         THEN Len(call_stack) - 1 ELSE Len(call_stack') - 1)
       /\ CallStep =>
              /\ Len(call_stack') = Len(call_stack) + 1
              /\ call_stack'[Len(call_stack')].return_pointer = Decoded.s.pc
              /\ call_stack'[Len(call_stack)].local_vars
                     = call_stack[Len(call_stack)].local_vars
       /\ ReturnStep =>
              \A f \in {call_stack[Len(call_stack)]} :
              \A var \in {ByteAt(memory, f.return_pointer)} :
                  /\ pc' = f.return_pointer + 1
                  /\ VarValue(call_stack', memory', var)
                         \in ReturnValues(Decoded.s.call_stack[Len(call_stack)])
                  /\ \A i \in 1..NumLocals :
                         i # var =>
                             call_stack'[Len(call_stack')].local_vars[i]
                                 = call_stack[Len(call_stack')].local_vars[i]]_vars

\* R1, called with `call R1 7 -> L1` after push 5, has run `store L1 5;
\* ret L1`: the main routine goes on behind the store byte with L1 = 5
C23_Witness ==
    /\ ctl = "loop" /\ game_running /\ opcode = 139
    /\ Len(call_stack) = 1 /\ pc = InitialPC + 9
    /\ ByteAt(memory, InitialPC + 8) = 1
    /\ call_stack[1].local_vars[1] = 5
    /\ call_stack[1].data_stack = <<5>>

\* the evaluation stacks of the frames 1..n stay
StacksKept(n) == \A i \in 1..n : call_stack'[i].data_stack = call_stack[i].data_stack

\* C24: the evaluation stack belongs to the frame. A call starts the routine
\* on an empty stack and leaves the caller's stack as the call found it once
\* its operands were read; no step, reading or writing, changes the stack of
\* a frame under the running one, and the operands of a step come from the
\* running frame's stack only; after the return the caller's stack is the
\* one of call time, plus the result when the store variable is 0.
C24_StackPerFrame ==
    [][/\ ctl = "loop" /\ ctl' = "loop" =>
              /\ StacksKept(IF Len(call_stack') >= Len(call_stack)
                            THEN Len(call_stack) - 1 ELSE Len(call_stack') - 1)
              /\ \A i \in 1..(Len(call_stack) - 1) :
                     Decoded.s.call_stack[i].data_stack = call_stack[i].data_stack
       /\ CallStep =>
              /\ call_stack'[Len(call_stack')].data_stack = <<>>
              /\ call_stack'[Len(call_stack)].data_stack
                     = Decoded.s.call_stack[Len(call_stack)].data_stack
       /\ ReturnStep =>
              \A f \in {call_stack[Len(call_stack)]} :
              \A var \in {ByteAt(memory, f.return_pointer)} :
              \A caller \in {call_stack[Len(call_stack')].data_stack} :
              \A after \in {call_stack'[Len(call_stack')].data_stack} :
                  IF var = 0
                  THEN /\ Len(after) = Len(caller) + 1
                       /\ SubSeq(after, 1, Len(caller)) = caller
                       /\ after[Len(after)]
                              \in ReturnValues(Decoded.s.call_stack[Len(call_stack)])
                  ELSE after = caller]_vars

\* R1, called with `call R1 7 -> sp` after push 5, has run `push 9; rtrue`:
\* the main routine's stack is the 5 of call time and the result
C24_Witness ==
    /\ ctl = "loop" /\ game_running /\ opcode = 48
    /\ Len(call_stack) = 1 /\ pc = InitialPC + 9
    /\ ByteAt(memory, R1Addr + 3) = 232
    /\ call_stack[1].data_stack = <<5, 1>>

(***************************************************************************)
(* C25: dec_chk and inc_chk                                                *)
(***************************************************************************)
\* the step executes dec_chk (k = 4) or inc_chk (k = 5) on the variable var
\* with the threshold t, constants both, and the variable is set
ChkStep(k, var, t) ==
    /\ Executes(k) /\ operands' = <<var, t>>
    /\ ctl' = "loop"
    /\ var = 0 => call_stack[Len(call_stack)].data_stack # <<>>

\* the frames after variable 0 of the running frame was replaced by n
WithTop(cs, n) ==
    [cs EXCEPT ![Len(cs)].data_stack[Len(cs[Len(cs)].data_stack)] = n]

\* C25: dec_chk decrements the variable modulo 2^16 and branches iff the new
\* value is less than the threshold, inc_chk increments it modulo 2^16 and
\* branches iff the new value is greater than the threshold, both compared
\* as signed 16-bit numbers, for every value and every threshold.
C25_ChkSigned ==
    [][\A t \in ChkValues :
          (ChkStep(4, 0, t) \/ ChkStep(5, 0, t)) =>
              \A v \in {VarValue(call_stack, memory, 0)} :
                  /\ ChkStep(4, 0, t) =>
                         BranchesAt(Signed16((v + 65535) % 65536) < Signed16(t),
                                    Decoded.s.pc, WithTop(call_stack, (v + 65535) % 65536))
                  /\ ChkStep(5, 0, t) =>
                         BranchesAt(Signed16((v + 1) % 65536) > Signed16(t),
                                    Decoded.s.pc, WithTop(call_stack, (v + 1) % 65536))]_vars

\* the same with both numbers of the comparison in 0..32767, where no sign
\* and no wrap is in play
C25_ChkSmall ==
    [][\A t \in ChkValues :
          (ChkStep(4, 0, t) \/ ChkStep(5, 0, t)) =>
              \A v \in {VarValue(call_stack, memory, 0)} :
                  /\ (ChkStep(4, 0, t) /\ t < 32768 /\ v \in 1..32768) =>
                         BranchesAt(v - 1 < t, Decoded.s.pc, WithTop(call_stack, v - 1))
                  /\ (ChkStep(5, 0, t) /\ t < 32768 /\ v < 32767) =>
                         BranchesAt(v + 1 > t, Decoded.s.pc, WithTop(call_stack, v + 1))]_vars

\* dec_chk sp 65534 was executed on the value 1 and the game goes on
C25_Witness ==
    /\ ctl = "loop" /\ game_running /\ opcode = 4 /\ operands = <<0, 65534>>
    /\ call_stack[1].data_stack = <<0>>

(***************************************************************************)
(* C26, C27: insert_obj and the unlinking of an object                     *)
(***************************************************************************)
Parent(m, n) == ByteAt(m, ObjAddr(n) + object_parent)
Sibling(m, n) == ByteAt(m, ObjAddr(n) + object_next)
Child(m, n) == ByteAt(m, ObjAddr(n) + object_child)

\* the chain of siblings from object n, cut after fuel objects
RECURSIVE Chain(_, _, _)
Chain(m, n, fuel) ==
    IF n = 0 \/ fuel = 0 THEN <<>> ELSE <<n>> \o Chain(m, Sibling(m, n), fuel - 1)

\* the children of object p in their order
Children(m, p) == IF p = 0 THEN <<>> ELSE Chain(m, Child(m, p), NumObjects + 1)

\* the sequence q without the object a
RECURSIVE Without(_, _)
Without(q, a) ==
    IF q = <<>> THEN <<>>
    ELSE IF Head(q) = a THEN Without(Tail(q), a)
    ELSE <<Head(q)>> \o Without(Tail(q), a)

InSeq(q, a) == \E i \in 1..Len(q) : q[i] = a

\* object a is linked as the tree has it: among the children of its parent,
\* or without a parent and without a sibling
Linked(m, a) ==
    IF Parent(m, a) = 0 THEN Sibling(m, a) = 0
    ELSE /\ InSeq(Children(m, Parent(m, a)), a)
         /\ Len(Children(m, Parent(m, a))) <= NumObjects

\* object a is linked, and in no chain but that of its parent
LinkedOnce(m, a) ==
    /\ Linked(m, a)
    /\ \A p \in 1..NumObjects :
           InSeq(Children(m, p), a) => p = Parent(m, a)

\* the chain of the children of object p has an end
Ends(m, p) == Len(Children(m, p)) <= NumObjects

\* the step executes insert_obj a b and the handler returns
InsertStep(a, b) == Executes(14) /\ operands' = <<a, b>> /\ ctl' = "loop"

C27_UnlinkTerminates ==
    [][\A a \in 1..NumObjects, b \in 1..NumObjects :
          (Executes(14) /\ operands' = <<a, b>>) =>
              /\ ctl' # "hang"
              /\ ~Linked(memory, a) => ~game_running']_vars

\* the same for the objects that are linked: their unlinking ends and the
\* game goes on
C27_UnlinkLinked ==
    [][\A a \in 1..NumObjects, b \in 1..NumObjects :
          (Executes(14) /\ operands' = <<a, b>> /\ Linked(memory, a)) =>
              ctl' = "loop" /\ game_running']_vars

\* the walk of remove_object has met an object again: the step has no end
C27_Hangs == ctl = "hang" /\ opcode = 14

(***************************************************************************)
(* C28: put_prop and get_prop                                              *)
(***************************************************************************)
\* the address of the size byte of property p in the list at addr, which the
\* byte 0 ends; -1 when the list has no property p
RECURSIVE PropAt(_, _, _)
PropAt(m, addr, p) ==
    IF ByteAt(m, addr) = 0 THEN 0 - 1
    ELSE IF ByteAt(m, addr) % 32 = p THEN addr
    ELSE PropAt(m, addr + 2 + ByteAt(m, addr) \div 32, p)

\* the list of object 3 of the property stories
PropOf3(m, p) == PropAt(m, FirstProp, p)

PropSize(m, at) == ByteAt(m, at) \div 32 + 1

PutStep(o, p, v) == Executes(35) /\ operands' = <<o, p, v>>

\* get_prop o p runs right after put_prop o p v has run
GetAfterPut(o, p, v) ==
    /\ Executes(17) /\ operands' = <<o, p>>
    /\ opcode = 35 /\ operands = <<o, p, v>> /\ game_running

\* what put_prop 3 p v does when the object has the property: the value is
\* in the data of the property and the game goes on
Puts(at, v) ==
    /\ game_running' /\ ctl' = "loop"
    /\ PropSize(memory, at) = 1 =>
           memory' = [memory EXCEPT ![at + 1] = v % 256]
    /\ PropSize(memory, at) = 2 =>
           memory' = [memory EXCEPT ![at + 1] = v \div 256, ![at + 2] = v % 256]

\* what get_prop 3 p stores after put_prop 3 p v
Gets(at, v) ==
    /\ PropSize(memory, at) = 1 => Stores(v % 256)
    /\ PropSize(memory, at) = 2 => Stores(v)

C28_PutGetNumbered ==
    [][\A p \in PropNumbers \ {0}, v \in PropValues :
          \A at \in {PropOf3(memory, p)} :
              /\ PutStep(3, p, v) =>
                     IF at < 0 THEN memory' = memory /\ ~game_running'
                     ELSE Puts(at, v)
              /\ (GetAfterPut(3, p, v) /\ at >= 0) => Gets(at, v)]_vars

\* put_prop 3 20 0x1234 and get_prop 3 20 -> sp have run
C28_Witness ==
    /\ ctl = "loop" /\ game_running /\ opcode = 17 /\ operands = <<3, 20>>
    /\ WordAt(memory, PropData(20)) = 4660
    /\ call_stack[1].data_stack = <<4660>>

(***************************************************************************)
(* C29, C30: decode_string                                                 *)
(***************************************************************************)
\* the step executes print on the string that follows the opcode
PrintStep == Executes(50)

\* the step prints the text, or nothing when the text is empty
Prints(text) == output' = (IF text = "" THEN output ELSE Append(output, text))

\* C29: the decoding of a string always comes to an end, because the codes
\* of an abbreviation inside the string of an abbreviation start no further
\* expansion: print ends without a fatal error, and its text is the one of
\* the decoder that expands at the top level only.
C29_AbbrevNotNested ==
    [][PrintStep =>
          \A flat \in {decode_string_flat(memory, Decoded.s.pc)} :
              flat.ok => /\ game_running' /\ ctl' = "loop"
                         /\ Prints(flat.text)]_vars

\* the same for the strings whose abbreviations hold no reference to an
\* abbreviation
C29_AbbrevPlain ==
    [][PrintStep =>
          \A flat \in {decode_string_flat(memory, Decoded.s.pc)} :
              (flat.ok /\ decode_string(memory, Decoded.s.pc) = flat)
              => /\ game_running' /\ ctl' = "loop"
                 /\ Prints(flat.text)]_vars

\* print has decoded a string with abbreviation 0 and "b"
C29_Witness ==
    /\ ctl = "loop" /\ game_running /\ opcode = 50
    /\ ByteAt(memory, AbbrevStrings) = 178
    /\ output = <<"gob">>

\* print of a reference to abbreviation 2, which refers to itself, has ended
\* in the error of the run loop
C29_SelfReference ==
    /\ opcode = 50 /\ ~game_running
    /\ ByteAt(memory, InitialPC + 2) = 71
    /\ output = <<"*** ERROR: Execution error">>

\* C30: in alphabet 2 the code 6 starts a ZSCII escape: the two codes hi, lo
\* that follow give the character (hi << 5) | lo, also when the codes are in
\* two words, and the decoding goes on as before: print ends without a fatal
\* error and its text is the one of the decoder that reads the escapes.
C30_ZsciiEscape ==
    [][PrintStep =>
          \A z \in {decode_string_zscii(memory, Decoded.s.pc)} :
              z.ok => /\ game_running' /\ ctl' = "loop"
                      /\ Prints(z.text)]_vars

\* the same for the strings in which the two decoders meet no escape
C30_NoEscape ==
    [][PrintStep =>
          \A z \in {decode_string_zscii(memory, Decoded.s.pc)} :
              (z.ok /\ decode_string(memory, Decoded.s.pc) = [z EXCEPT !.mode = "program"])
              => /\ game_running' /\ ctl' = "loop"
                 /\ Prints(z.text)]_vars

\* print of "xy" and the escape 6, 3, 1 in one word has ended in the error
\* of the run loop
C30_EscapeRaises ==
    /\ opcode = 50 /\ ~game_running
    /\ ByteAt(memory, InitialPC + 3) = 152 /\ ByteAt(memory, InitialPC + 4) = 97
    /\ output = <<"*** ERROR: Execution error">>

(***************************************************************************)
(* C31, C32, C33: the tokens of sread and their dictionary entries         *)
(***************************************************************************)
\* the dictionary of the header of memory m: its separators, the size and
\* the number of its entries and the address of the first one
DictHeader(m) ==
    LET dictp == WordAt(m, h_words_offset)
        count == ByteAt(m, dictp)
    IN  [separators |-> { ByteAt(m, dictp + i) : i \in 1..count },
         entry_size |-> ByteAt(m, dictp + 1 + count),
         size |-> WordAt(m, dictp + 2 + count),
         offset |-> dictp + 4 + count]

\* the two-word key of entry k, counted from 0
EntryKey(m, h, k) ==
    <<WordAt(m, h.offset + k * h.entry_size), WordAt(m, h.offset + k * h.entry_size + 2)>>

\* the order of the keys: unsigned, the first word before the second
KeyLess(a, b) == a[1] < b[1] \/ (a[1] = b[1] /\ a[2] < b[2])

Ascending(m, h) ==
    \A k \in 0..(h.size - 2) : KeyLess(EntryKey(m, h, k), EntryKey(m, h, k + 1))

\* the address of the entry that has the key, 0 when no entry has it
EntryOf(m, h, key) ==
    LET hits == { k \in 0..(h.size - 1) : EntryKey(m, h, k) = key }
    IN  IF hits = {} THEN 0
        ELSE h.offset + (CHOOSE k \in hits : TRUE) * h.entry_size

\* the key of a token
TokenKey(token) ==
    SubSeq(encode_string(Len(token), StrOf(token)).buffer, 1, 2)

\* the characters that end a word whatever the dictionary says:
\* space, tab, newline, return, form feed, ".", ",", "?"
Whitespace == {32, 9, 10, 13, 12, 46, 44, 63}

\* the text that the text buffer at text holds
TextOf(m, text) == [i \in 1..StrLen(m, text, 0) |-> ByteAt(m, text + i - 1)]

\* the dictionary address in entry i of the parse buffer at parse
EntryWord(m, parse, i) ==
    ByteAt(m, parse + 2 + 4 * (i - 1)) * 256 + ByteAt(m, parse + 3 + 4 * (i - 1))

\* C31: when the entries of the dictionary are in ascending order of their
\* keys, sread gives every token of the line (as far as the parse buffer has
\* room) the address of the entry whose key is the token's key, and 0 when
\* no entry has that key, also when entries have the same first key word
C31_DictLookup ==
    [][SreadStep =>
         \A d \in {Decoded} : \A h \in {DictHeader(memory)} :
             (Len(d.operands) >= 2 /\ d.operands[2] # 0 /\ Ascending(memory, h)) =>
                 \A tokens \in {Split(TextOf(memory', d.operands[1]),
                                      h.separators \cup Whitespace, <<>>)} :
                     \A i \in 1..Len(tokens) :
                         i <= ByteAt(memory, d.operands[2])
                         => EntryWord(memory', d.operands[2], i)
                            = EntryOf(memory, h, TokenKey(tokens[i]))]_vars

\* the same for the dictionaries in which no two entries have the same first
\* key word
C31_DictLookupDistinct ==
    [][SreadStep =>
         \A d \in {Decoded} : \A h \in {DictHeader(memory)} :
             (/\ Len(d.operands) >= 2 /\ d.operands[2] # 0 /\ Ascending(memory, h)
              /\ \A j, k \in 0..(h.size - 1) :
                     j # k => EntryKey(memory, h, j)[1] # EntryKey(memory, h, k)[1]) =>
                 \A tokens \in {Split(TextOf(memory', d.operands[1]),
                                      h.separators \cup Whitespace, <<>>)} :
                     \A i \in 1..Len(tokens) :
                         i <= ByteAt(memory, d.operands[2])
                         => EntryWord(memory', d.operands[2], i)
                            = EntryOf(memory, h, TokenKey(tokens[i]))]_vars

\* sread has looked up "lamps" in the dictionary of lam, lamp, lamps and has
\* written 0 as its address
C31_Missed ==
    /\ opcode = 36 /\ ctl = "loop" /\ game_running
    /\ EntryKey(memory, DictHeader(memory), 2) = TokenKey(CodesOf("lamps"))
    /\ TextOf(memory, TextBuffer) = CodesOf("lamps")
    /\ ByteAt(memory, ParseBuffer + 1) = 1
    /\ EntryWord(memory, ParseBuffer, 1) = 0

\* the bytes from address from on, as far as a parse buffer of the stories
\* can reach, are in m2 what they are in m1
SameFrom(m1, m2, from) ==
    \A a \in from..(ParseBuffer + 2 + 4 * 8) : ByteAt(m2, a) = ByteAt(m1, a)

\* C32: the first byte of the parse buffer is its capacity: sread stores a
\* token count that is at most the capacity and writes no byte at or after
\* parse buffer + 2 + 4 * capacity, whatever the line
C32_Capacity ==
    [][SreadStep =>
         \A d \in {Decoded} :
             (Len(d.operands) >= 2 /\ d.operands[2] # 0) =>
                 \A capacity \in {ByteAt(memory, d.operands[2])} :
                     /\ ByteAt(memory', d.operands[2] + 1) <= capacity
                     /\ SameFrom(memory, memory', d.operands[2] + 2 + 4 * capacity)]_vars

\* the same for the lines that have no more tokens than the capacity
C32_CapacityFits ==
    [][SreadStep =>
         \A d \in {Decoded} : \A h \in {DictHeader(memory)} :
             (Len(d.operands) >= 2 /\ d.operands[2] # 0) =>
                 \A capacity \in {ByteAt(memory, d.operands[2])} :
                     Len(Split(TextOf(memory', d.operands[1]),
                               h.separators \cup Whitespace, <<>>)) <= capacity
                     => /\ ByteAt(memory', d.operands[2] + 1) <= capacity
                        /\ SameFrom(memory, memory', d.operands[2] + 2 + 4 * capacity)]_vars

\* sread has stored two of the three tokens of "lamp take go", which only
\* the parse buffer of capacity 1 makes it do
C32_Overrun ==
    /\ opcode = 36 /\ ctl = "loop" /\ game_running
    /\ TextOf(memory, TextBuffer) = CodesOf("lamp take go")
    /\ ByteAt(memory, ParseBuffer + 1) = 2
    /\ EntryWord(memory, ParseBuffer, 2) = EntryOf(memory, DictHeader(memory),
                                                   TokenKey(CodesOf("take")))

\* entry i of the parse buffer at parse is a token of the given length at
\* the given offset of the text
EntryIs(m, parse, i, length, offset) ==
    /\ ByteAt(m, parse + 4 + 4 * (i - 1)) = length
    /\ ByteAt(m, parse + 5 + 4 * (i - 1)) = offset

\* C33: every separator of the dictionary that occurs in the line has a
\* parse entry of its own, of length 1 and with its position in the line as
\* the text offset (as far as the parse buffer has room for the entries)
C33_SeparatorEntry ==
    [][SreadStep =>
         \A d \in {Decoded} : \A h \in {DictHeader(memory)} :
             (Len(d.operands) >= 2 /\ d.operands[2] # 0) =>
                 \A text \in {TextOf(memory', d.operands[1])} :
                     \A p \in 1..Len(text) :
                         (/\ text[p] \in h.separators
                          /\ Cardinality({ q \in 1..Len(text) : text[q] \in h.separators })
                             + Len(Split(text, h.separators \cup Whitespace, <<>>))
                             <= ByteAt(memory, d.operands[2]))
                         => \E i \in 1..ByteAt(memory', d.operands[2] + 1) :
                                EntryIs(memory', d.operands[2], i, 1, p - 1)]_vars

\* the same for the lines in which no separator of the dictionary occurs:
\* the words around the characters that split the line have their entries
C33_NoSeparator ==
    [][SreadStep =>
         \A d \in {Decoded} : \A h \in {DictHeader(memory)} :
             (Len(d.operands) >= 2 /\ d.operands[2] # 0) =>
                 \A text \in {TextOf(memory', d.operands[1])} :
                     (/\ \A p \in 1..Len(text) : text[p] \notin h.separators
                      /\ Len(Split(text, Whitespace, <<>>)) <= ByteAt(memory, d.operands[2]))
                     => \A tokens \in {Split(text, Whitespace, <<>>)} :
                            /\ ByteAt(memory', d.operands[2] + 1) = Len(tokens)
                            /\ \A i \in 1..Len(tokens) :
                                   ByteAt(memory', d.operands[2] + 4 + 4 * (i - 1))
                                   = Len(tokens[i])]_vars

\* sread has read "go,lamp" with the comma as a separator of the dictionary
\* and has stored the two words only
C33_Dropped ==
    /\ opcode = 36 /\ ctl = "loop" /\ game_running
    /\ 44 \in DictHeader(memory).separators
    /\ TextOf(memory, TextBuffer) = CodesOf("go,lamp")
    /\ ByteAt(memory, ParseBuffer + 1) = 2
    /\ EntryIs(memory, ParseBuffer, 1, 2, 0)
    /\ EntryIs(memory, ParseBuffer, 2, 4, 3)

(***************************************************************************)
(* C34: operands that name a variable                                      *)
(***************************************************************************)
\* the instruction at the PC is inc, dec, load, dec_chk, inc_chk, store or
\* pull, its first operand has the operand type typ (1 small constant,
\* 2 variable) and the operand byte n
NamesVariable(typ, n) ==
    LET b == ByteAt(memory, pc) IN
    \/ b \in {128 + 16 * typ + 5, 128 + 16 * typ + 6, 128 + 16 * typ + 14,
              64 * (typ - 1) + 4, 64 * (typ - 1) + 5, 64 * (typ - 1) + 13}
       /\ ByteAt(memory, pc + 1) = n
    \/ b = 233 /\ ByteAt(memory, pc + 1) = 64 * typ + 63 /\ ByteAt(memory, pc + 2) = n

\* the step executes such an instruction in a frame whose stack is not
\* empty, and the game goes on
RefStep(typ, n) ==
    /\ ctl = "loop" /\ ~IndexError(pc) /\ NamesVariable(typ, n)
    /\ Len(call_stack) >= 1 /\ call_stack[Len(call_stack)].data_stack # <<>>
    /\ instruction_count' = instruction_count + 1
    /\ opcode' \in {133, 134, 142, 4, 5, 13, 41}
    /\ ctl' = "loop" /\ game_running'

\* the evaluation stack of the running frame
DataStack(cs) == cs[Len(cs)].data_stack

\* a step that pops the stack at most once leaves what is below the top
BelowTopKept ==
    /\ Len(call_stack') = Len(call_stack)
    /\ Len(DataStack(call_stack')) >= Len(DataStack(call_stack)) - 1
    /\ SubSeq(DataStack(call_stack'), 1, Len(DataStack(call_stack)) - 1)
       = SubSeq(DataStack(call_stack), 1, Len(DataStack(call_stack)) - 1)

\* the step does to the global variable n what its opcode says, and leaves
\* the local variables and, but for pull, the stack as they are
ActsOnGlobal(n) ==
    LET old == VarValue(call_stack, memory, n)
        new == VarValue(call_stack', memory', n)
        st == DataStack(call_stack)
    IN  /\ call_stack'[Len(call_stack')].local_vars = call_stack[Len(call_stack)].local_vars
        /\ opcode' \in {133, 5} => new = (old + 1) % 65536
        /\ opcode' \in {134, 4} => new = (old + 65535) % 65536
        /\ opcode' = 13 => new = ByteAt(memory, pc + 2)
        /\ opcode' = 142 => new = old /\ VarValue(call_stack', memory', ByteAt(memory, pc + 2)) = old
        /\ opcode' = 41 => new = st[Len(st)]
        /\ DataStack(call_stack') = IF opcode' = 41 THEN SubSeq(st, 1, Len(st) - 1) ELSE st

\* C34: when the first operand of inc, dec, inc_chk, dec_chk, load, store or
\* pull has the variable operand type and the byte n, the instruction acts on
\* variable n itself, and the whole instruction pops the evaluation stack at
\* most once
C34_ByNumber ==
    [][\A n \in {0, 16} :
          RefStep(2, n) => /\ BelowTopKept
                           /\ n = 16 => ActsOnGlobal(n)]_vars

\* the same when the operand is a small constant n
C34_ByConstant ==
    [][\A n \in {0, 16} :
          RefStep(1, n) => /\ BelowTopKept
                           /\ n = 16 => ActsOnGlobal(n)]_vars

\* inc with the variable operand 16 has left G0 at 5 and has made local 5
\* (the value of G0) 1
C34_Dereferenced ==
    /\ opcode = 133 /\ ctl = "loop" /\ game_running
    /\ opcode_byte = 165 /\ ByteAt(memory, fetch_pc + 1) = 16
    /\ VarValue(call_stack, memory, 16) = 5
    /\ VarValue(call_stack, memory, 5) = 1

\* dec with the variable operand 0 on the stack 2, 0 has popped both values
\* and has left 1 alone on the stack
C34_PoppedTwice ==
    /\ opcode = 134 /\ ctl = "loop" /\ game_running
    /\ opcode_byte = 166 /\ ByteAt(memory, fetch_pc + 1) = 0
    /\ DataStack(call_stack) = <<1>>

(***************************************************************************)
(* C35: the opcodes of version 3                                           *)
(***************************************************************************)
\* b is the opcode byte of an opcode of version 3: 0OP 0..13, 1OP 0..15
\* without 8, 2OP 1..24 in long and in variable form, VAR 0..9
V3Byte(b) ==
    \/ b \in 176..189
    \/ b \in 128..175 /\ b % 16 # 8
    \/ b \in 0..223 /\ (b < 128 \/ b >= 192) /\ b % 32 \in 1..24
    \/ b \in 224..255 /\ b % 32 \in 0..9

\* the step fetches an instruction with the opcode byte b and counts it
FetchesByte(b) ==
    /\ ctl = "loop" /\ LoopGuard /\ ~IndexError(pc)
    /\ ByteAt(memory, pc) = b
    /\ instruction_count' = instruction_count + 1 /\ instruction_count' <= maxcount

\* the step ends the program because the table has no handler
StopsUnimplemented ==
    /\ ctl' = "exit"
    /\ output' = Append(output, "*** ERROR: Unimplemented opcode")

\* the bytes of nop, save, restore, restart, pop, show_status and verify,
\* and of remove_obj with each operand type
Unlisted == {180, 181, 182, 183, 185, 188, 189, 137, 153, 169}

\* C35: every opcode of version 3 has a handler with its semantics: none of
\* them ends the program as unimplemented, and pop discards the top of the
\* evaluation stack and the program goes on at the next instruction
C35_AllDispatched ==
    [][\A b \in 0..255 :
          (V3Byte(b) /\ FetchesByte(b)) =>
              /\ ~StopsUnimplemented
              /\ (b = 185 /\ Len(call_stack) >= 1 /\ DataStack(call_stack) # <<>>) =>
                    /\ ctl' = "loop" /\ game_running' /\ pc' = pc + 1
                    /\ Len(call_stack') = Len(call_stack)
                    /\ DataStack(call_stack')
                       = SubSeq(DataStack(call_stack), 1, Len(DataStack(call_stack)) - 1)]_vars

\* the same for the other opcodes of version 3
C35_ListedDispatched ==
    [][\A b \in 0..255 \ Unlisted :
          (V3Byte(b) /\ FetchesByte(b)) => ~StopsUnimplemented]_vars

\* nop has ended the program as an unimplemented opcode
C35_NopStops ==
    /\ ctl = "exit" /\ opcode_byte = 180
    /\ output # <<>> /\ output[Len(output)] = "*** ERROR: Unimplemented opcode"

\* pop was dispatched to op_catch, which has ended the program with both
\* values still on the stack
C35_PopStops ==
    /\ ctl = "exit" /\ opcode_byte = 185 /\ opcode = 57
    /\ Len(call_stack) = 1 /\ DataStack(call_stack) = <<2, 1>>

(***************************************************************************)
(* C36: the key of the dispatch table                                      *)
(***************************************************************************)
\* the operand-count class of an opcode byte
ClassOfByte(b) ==
    IF b >= 224 THEN "VAR"
    ELSE IF b >= 192 THEN "2OP"
    ELSE IF b >= 176 THEN "0OP"
    ELSE IF b >= 128 THEN "1OP"
    ELSE "2OP"

\* the class of the handler that the table has under the key k
ClassOfKey(k) ==
    IF k \in 48..59 THEN "0OP"
    ELSE IF k \in 128..143 THEN "1OP"
    ELSE IF k \in 1..25 THEN "2OP"
    ELSE "VAR"

\* the step runs the handler of the table for the instruction it fetched
RunsHandler(b) == FetchesByte(b) /\ opcode' \in opcodes

\* C36: the key is injective over the class and the number of the opcode:
\* an opcode byte of one class never runs the handler of another class
C36_KeyInjective ==
    [][\A b \in 0..255 : RunsHandler(b) => ClassOfKey(opcode') = ClassOfByte(b)]_vars

\* the same for the opcode bytes of version 3
C36_KeyInjectiveV3 ==
    [][\A b \in 0..255 :
          (V3Byte(b) /\ RunsHandler(b)) => ClassOfKey(opcode') = ClassOfByte(b)]_vars

\* the byte 0xF0, the VAR opcode 16, was run by the handler of rtrue
C36_Clash ==
    /\ opcode_byte = 240 /\ opcode = 48
    /\ instruction_count = 1 /\ call_stack = <<>>

(***************************************************************************)
(* C37: the values of the locals and of the evaluation stacks              *)
(***************************************************************************)
\* every local and every value on an evaluation stack is in 0..65535
AllUnsigned(cs) ==
    \A i \in 1..Len(cs) :
        /\ \A j \in 1..Len(cs[i].local_vars) : cs[i].local_vars[j] \in 0..65535
        /\ \A j \in 1..Len(cs[i].data_stack) : cs[i].data_stack[j] \in 0..65535

\* C37: in every reachable state every value held in a local variable or on
\* an evaluation stack is an unsigned 16-bit value, also a local that call
\* took from a default word of the routine header from 0x8000 on
C37_Unsigned16 == AllUnsigned(call_stack)

\* the same in the stories whose routine R1 has a default word below 0x8000
C37_UnsignedDefaults ==
    WordAt(memory, R1Addr + 1) < 32768 => AllUnsigned(call_stack)

\* the routine called with no argument has -1 in its local, from the default
\* word 0xFFFF, and has pushed it
C37_Negative ==
    /\ ctl = "loop" /\ game_running /\ Len(call_stack) = 2
    /\ WordAt(memory, R1Addr + 1) = 65535
    /\ call_stack[2].local_vars[1] = 0 - 1
    /\ call_stack[2].data_stack = <<0 - 1>>

(***************************************************************************)
(* C38: an operand read of variable 0 on an empty stack                    *)
(***************************************************************************)
\* the step executes an instruction during whose fetch read_variable found
\* the evaluation stack of the running frame empty
EmptyOperandRead ==
    /\ ctl = "loop" /\ LoopGuard /\ game_running
    /\ instruction_count' = instruction_count + 1 /\ instruction_count' <= maxcount
    /\ \A d \in {Decoded} :
        /\ d.s.status = "ok" /\ ~d.s.game_running
        /\ d.s.output = Append(output, "*** ERROR: data stack is empty in read_variable()")

\* the bytes of m1 and m2 are the same
SameMemory(m1, m2) ==
    \A a \in DOMAIN m1 \cup DOMAIN m2 : ByteAt(m1, a) = ByteAt(m2, a)

\* C38: an instruction whose operand read of variable 0 finds the evaluation
\* stack empty has no effect: it writes no byte of memory (so no global
\* variable), changes no local variable and pushes or pops no frame
C38_FaultNoEffect ==
    [][EmptyOperandRead =>
          /\ SameMemory(memory, memory')
          /\ Len(call_stack') = Len(call_stack)
          /\ \A i \in 1..Len(call_stack) :
                call_stack'[i].local_vars = call_stack[i].local_vars]_vars

\* what does hold of such an instruction: the error is reported and the
\* machine is stopped
C38_FaultHalts ==
    [][EmptyOperandRead =>
          /\ ~game_running'
          /\ Len(output') > Len(output)
          /\ output'[Len(output) + 1] = "*** ERROR: data stack is empty in read_variable()"]_vars

\* ret sp on the empty stack of a called routine has reported the error and
\* has then returned 0 to the caller: the frame of the routine is gone
C38_ReturnsAfterFault ==
    /\ opcode = 139 /\ opcode_byte = 171 /\ operands = <<0>>
    /\ ~game_running /\ Len(call_stack) = 1
    /\ \E i \in 1..Len(output) : output[i] = "*** ERROR: data stack is empty in read_variable()"

(***************************************************************************)
(* C39: restart_game                                                       *)
(***************************************************************************)
\* the step is a call of restart_game that returned True
Restarted == host_last'.op = "restart" /\ host_last'.ok /\ host_budget' < host_budget

\* the dynamic memory of the story file: the bytes below its static base
DynamicOf(file) == 0..(WordAt(file, 14) - 1)

InitialFrame == [Frame EXCEPT !.return_pointer = WordAt(story_file, 6)]

\* C39: after a successful restart_game, whatever the depth of the call
\* stack was, the call stack is exactly the initial frame, the PC is the
\* initial PC of header word 0x06, and the dynamic memory is that of the
\* story file
C39_Restart ==
    [][Restarted =>
          /\ call_stack' = <<InitialFrame>>
          /\ pc' = WordAt(memory', 6)
          /\ \A a \in DynamicOf(story_file) :
                 Cell(memory', a) = Cell(story_file, a)]_vars

\* what restart_game does: the initial frame goes on top of the frames
\* that were there, the PC is the initial PC, and the bytes below the
\* static base that the memory named at the call are those of the file
C39_RestartAppends ==
    [][Restarted =>
          /\ call_stack' = Append(call_stack,
                              [Frame EXCEPT !.return_pointer = WordAt(memory', 6)])
          /\ pc' = WordAt(memory', 6)
          /\ \A a \in 0..(WordAt(memory, 14) - 1) :
                 Cell(memory', a) = Cell(story_file, a)
          /\ \A a \in DOMAIN memory :
                 a >= WordAt(memory, 14) => memory'[a] = memory[a]]_vars

\* a restart inside routine R1 has left three frames
C39_FramesLeft ==
    /\ host_last.op = "restart" /\ host_last.ok
    /\ Len(call_stack) = 3
    /\ pc = WordAt(memory, 6)

\* a restart after the story lowered its static base has left the changed
\* global in memory
C39_GlobalLeft ==
    /\ host_last.op = "restart" /\ host_last.ok
    /\ pc = WordAt(memory, 6)
    /\ WordAt(memory, 14) = WordAt(story_file, 14)
    /\ WordAt(memory, GlobalsAddr) # WordAt(story_file, GlobalsAddr)

(***************************************************************************)
(* C40: the consistency of the object tree                                 *)
(***************************************************************************)
Objects == 1..NumObjects

\* how often object a occurs in the sequence q
Times(q, a) == Cardinality({i \in 1..Len(q) : q[i] = a})

\* the chain of the children of p ends in 0 and meets no object twice
Acyclic(m, p) ==
    /\ Ends(m, p)
    /\ \A n \in Objects : Times(Children(m, p), n) <= 1

\* every object with a parent occurs exactly once in the chain of that
\* parent, every chain is acyclic and ends in 0, and every object without a
\* parent has no sibling
Consistent(m) ==
    /\ \A n \in Objects :
           IF Parent(m, n) = 0 THEN Sibling(m, n) = 0
           ELSE Times(Children(m, Parent(m, n)), n) = 1
    /\ \A p \in Objects : Acyclic(m, p)

\* every object of the chain of p names p as its parent
ChildrenOwned(m) ==
    \A p \in Objects :
        \A i \in 1..Len(Children(m, p)) : Parent(m, Children(m, p)[i]) = p

WellFormed(m) == Consistent(m) /\ ChildrenOwned(m)

\* the step executes insert_obj a b for two distinct objects a, b
InsertsDistinct == \E a \in Objects, b \in Objects : a # b /\ InsertStep(a, b)

\* C40: the consistency of the object tree is preserved: from a tree in
\* which every object with a parent occurs exactly once in the chain of that
\* parent, every chain is acyclic and ends in 0 and every parentless object
\* has sibling 0, insert_obj A B with A, B distinct and not 0 leads to a
\* tree with the same consistency.
C40_ConsistencyKept ==
    [][(InsertsDistinct /\ Consistent(memory)) => Consistent(memory')]_vars

\* the same from the trees in which, besides, every object of a chain
\* names the owner of the chain as its parent
C40_WellFormedKept ==
    [][(InsertsDistinct /\ WellFormed(memory)) =>
          (WellFormed(memory') /\ game_running')]_vars

\* insert_obj 3 5; insert_obj 5 3 on the tree in which 1 has the children
\* 2, 3, 4: after the second, 3 and 5 are each the only child of the other,
\* 1 has the children 2, 4 and the tree is as consistent as before
C40_Sequence ==
    /\ ctl = "loop" /\ game_running /\ opcode = 14 /\ operands = <<5, 3>>
    /\ Children(memory, 3) = <<5>> /\ Children(memory, 5) = <<3>>
    /\ Children(memory, 1) = <<2, 4>>
    /\ WellFormed(memory)

\* insert_obj 4 1 on the tree in which 4 is in the chain of 1 and the child
\* of 2: the chain of 1 is the cycle 4, 3, 4, ...
C40_Cycle ==
    /\ ctl = "loop" /\ game_running /\ opcode = 14 /\ operands = <<4, 1>>
    /\ Child(memory, 1) = 4 /\ Sibling(memory, 4) = 3 /\ Sibling(memory, 3) = 4
    /\ ~Ends(memory, 1)

====
